---- MODULE Spec2Model ----
(***************************************************************************)
(* A model of the query pipeline of INTELLIGENT-COMMERCE-AI:               *)
(* Orchestrator (intent classification, routing, synthesis) and the        *)
(* Compare specialist with its tools.                                      *)
(*                                                                         *)
(* Python strings are modelled as sequences of one-character strings, so   *)
(* that "keyword in query_lower" is a real substring test.  The rupee sign *)
(* is the single character "rupee".                                        *)
(***************************************************************************)
EXTENDS Integers, Sequences, FiniteSets, TLC

VARIABLES
    pc,               \* position of Orchestrator.process
    user_query,       \* argument of Orchestrator.process
    execution_trace,  \* the dict built and returned by Orchestrator.process
    intent,           \* result of _analyze_intent
    context,          \* the per-query context dict
    agent_results,    \* the results dict of _route_query
    store,            \* CatalogStore and ReviewIndex content
    calls,            \* history: specialist process() calls and returns, in order
    faults,           \* history: backend calls that threw while serving the query
    raised,           \* history: an exception reached the except clause of process
    review_context,   \* history: the context handed to ReviewAgent.process
    cmp_query,        \* CompareAgent.process: query argument
    cmp_context,      \* CompareAgent.process: context argument
    cmp_result,       \* CompareAgent.process: returned dict (or the raise)
    tool_ids,         \* CompareTools.compare_products: product_ids argument
    tool_result,      \* CompareTools.compare_products: returned dict
    direct_call,      \* a tool or specialist called on its own: arguments and returns
    sessions,         \* concurrent calls of Orchestrator.process: the locals of each
    storage,          \* Storage: the rows of the primary store and of Firebase
    memory            \* MemoryTools: the conversations table and its concurrent callers

vars == <<pc, user_query, execution_trace, intent, context, agent_results, store,
          calls, faults, raised, review_context,
          cmp_query, cmp_context, cmp_result, tool_ids, tool_result, direct_call,
          sessions, storage, memory>>

(***************************************************************************)
(* Strings                                                                 *)
(***************************************************************************)

\* c.lower() for one character
LowerChar(c) ==
    CASE c = "A" -> "a"
      [] c = "B" -> "b"
      [] c = "C" -> "c"
      [] c = "D" -> "d"
      [] c = "E" -> "e"
      [] c = "F" -> "f"
      [] c = "G" -> "g"
      [] c = "H" -> "h"
      [] c = "I" -> "i"
      [] c = "J" -> "j"
      [] c = "K" -> "k"
      [] c = "L" -> "l"
      [] c = "M" -> "m"
      [] c = "N" -> "n"
      [] c = "O" -> "o"
      [] c = "P" -> "p"
      [] c = "Q" -> "q"
      [] c = "R" -> "r"
      [] c = "S" -> "s"
      [] c = "T" -> "t"
      [] c = "U" -> "u"
      [] c = "V" -> "v"
      [] c = "W" -> "w"
      [] c = "X" -> "x"
      [] c = "Y" -> "y"
      [] c = "Z" -> "z"
      [] OTHER -> c

\* str.lower()
Lower(s) == [i \in 1..Len(s) |-> LowerChar(s[i])]

\* the Python test "kw in s" on strings
Contains(s, kw) ==
    \E i \in 1..(Len(s) - Len(kw) + 1) : SubSeq(s, i, i + Len(kw) - 1) = kw

\* any(keyword in s for keyword in keywords)
AnyIn(keywords, s) == \E kw \in keywords : Contains(s, kw)

\* " ".join(words)
RECURSIVE JoinWords(_)
JoinWords(ws) ==
    IF Len(ws) = 0 THEN <<>>
    ELSE IF Len(ws) = 1 THEN ws[1]
    ELSE ws[1] \o <<" ">> \o JoinWords(Tail(ws))

(***************************************************************************)
(* Keyword tables of Orchestrator._analyze_intent                          *)
(***************************************************************************)

comparison_keywords ==
    { <<"c","o","m","p","a","r","e">>
    , <<"v","s">>
    , <<"v","e","r","s","u","s">>
    , <<"d","i","f","f","e","r","e","n","c","e"," ","b","e","t","w","e","e","n">>
    , <<"w","h","i","c","h"," ","i","s"," ","b","e","t","t","e","r">>
    , <<"o","r">>
    }

counting_keywords ==
    { <<"h","o","w"," ","m","a","n","y">>
    , <<"c","o","u","n","t">>
    , <<"n","u","m","b","e","r"," ","o","f">>
    , <<"t","o","t","a","l">>
    }

spec_keywords ==
    { <<"r","a","m">>
    , <<"s","t","o","r","a","g","e">>
    , <<"d","i","s","p","l","a","y">>
    , <<"s","c","r","e","e","n">>
    , <<"b","a","t","t","e","r","y">>
    , <<"c","a","m","e","r","a">>
    , <<"p","r","o","c","e","s","s","o","r">>
    , <<"g","b">>
    , <<"t","b">>
    , <<"i","n","c","h">>
    }

spec_operators ==
    { <<">">>
    , <<"<">>
    , <<"m","o","r","e"," ","t","h","a","n">>
    , <<"l","e","s","s"," ","t","h","a","n">>
    , <<"a","t"," ","l","e","a","s","t">>
    , <<"a","b","o","v","e">>
    , <<"b","e","l","o","w">>
    , <<"m","i","n","i","m","u","m">>
    , <<"m","a","x","i","m","u","m">>
    }

price_keywords ==
    { <<"u","n","d","e","r">>
    , <<"b","e","l","o","w">>
    , <<"b","u","d","g","e","t">>
    , <<"c","h","e","a","p">>
    , <<"a","f","f","o","r","d","a","b","l","e">>
    , <<"p","r","i","c","e">>
    , <<"w","i","t","h","i","n">>
    , <<"rupee">>
    , <<"b","e","t","w","e","e","n">>
    , <<"a","r","o","u","n","d">>
    }

review_keywords ==
    { <<"r","e","v","i","e","w">>
    , <<"r","a","t","i","n","g">>
    , <<"g","o","o","d">>
    , <<"b","e","s","t">>
    , <<"q","u","a","l","i","t","y">>
    , <<"r","e","c","o","m","m","e","n","d">>
    , <<"o","p","i","n","i","o","n">>
    , <<"b","a","t","t","e","r","y">>
    , <<"c","a","m","e","r","a">>
    , <<"p","e","r","f","o","r","m","a","n","c","e">>
    , <<"t","h","i","n","k">>
    , <<"s","a","y">>
    , <<"c","u","s","t","o","m","e","r","s">>
    , <<"f","e","e","d","b","a","c","k">>
    , <<"w","o","r","t","h">>
    , <<"r","e","l","i","a","b","l","e">>
    , <<"d","u","r","a","b","l","e">>
    }


(***************************************************************************)
(* Queries: one to MaxWords words of Vocab separated by single spaces, and *)
(* None (a caller that passes no string).                                  *)
(***************************************************************************)


Vocab ==
    { <<"C","o","m","p","a","r","e">>
    , <<"c","h","e","a","p">>
    , <<"p","h","o","n","e","s">>
    , <<"a","f","f","o","r","d","a","b","l","e">>
    , <<"t","o","t","a","l">>
    , <<"r","a","m">>
    , <<"c","a","m","e","r","a">>
    , <<"b","e","l","o","w">>
    , <<"b","e","s","t">>
    , <<"l","a","p","t","o","p","s">>
    , <<"a","p","p","l","e"," ","p","h","o","n","e">>
    , <<"r","a","m"," ","a","b","o","v","e"," ","8","g","b">>
    , <<"u","n","d","e","r"," ","1","5","0">> }

MaxWords == 2

NoneValue == <<"<None>">>

WordLists == UNION { [1..n -> Vocab] : n \in 1..MaxWords }

Queries == { JoinWords(ws) : ws \in WordLists }

(***************************************************************************)
(* Product names, answers of the language model, vocabulary of            *)
(* CompareAgent.process                                                    *)
(***************************************************************************)


LLMContents ==
    { <<"N","O","N","E">>
    , <<"i","P","h","o","n","e"," ","1","5","\n","G","a","l","a","x","y"," ","S","2","4">>
    , <<" ","i","p","h","o","n","e"," ","1","5"," ","p","r","o","\n","\n"," ","g","a","l","a","x","y"," ","\n","p","i","x","e","l"," ","8"," ">>
    , <<"A","p","p","l","e"," ","i","P","h","o","n","e","\n","S","a","m","s","u","n","g"," ","G","a","l","a","x","y"," ","U","l","t","r","a">>
    , <<"i","P","h","o","n","e"," ","1","5">>
    , <<"p","i","x","e","l"," ","8">>
    , <<"i","P","h","o","n","e","\n","i","P","h","o","n","e"," ","1","5">>
    , <<"i","P","h","o","n","e","\n","G","a","l","a","x","y","\n","1","5","\n","S","2","4","\n","P","r","o","\n","i","P","h","o","n","e"," ","1","5">> }

str_NONE == <<"N","O","N","E">>

\* ['cheap', 'budget', 'affordable', 'save money', 'value']
budget_words ==
    { <<"c","h","e","a","p">>
    , <<"b","u","d","g","e","t">>
    , <<"a","f","f","o","r","d","a","b","l","e">>
    , <<"s","a","v","e"," ","m","o","n","e","y">>
    , <<"v","a","l","u","e">>
    }

\* ['best', 'quality', 'top', 'premium', 'highest rated']
quality_words ==
    { <<"b","e","s","t">>
    , <<"q","u","a","l","i","t","y">>
    , <<"t","o","p">>
    , <<"p","r","e","m","i","u","m">>
    , <<"h","i","g","h","e","s","t"," ","r","a","t","e","d">>
    }

\* str.split(sep): the pieces between separators, empty pieces kept
RECURSIVE SplitAcc(_, _, _, _)
SplitAcc(s, seps, cur, acc) ==
    IF Len(s) = 0 THEN Append(acc, cur)
    ELSE IF Head(s) \in seps THEN SplitAcc(Tail(s), seps, <<>>, Append(acc, cur))
    ELSE SplitAcc(Tail(s), seps, Append(cur, Head(s)), acc)

Whitespace == {" ", "\n", "\t"}

\* content.split('\n')
SplitLines(s) == SplitAcc(s, {"\n"}, <<>>, <<>>)

\* str.split(): split on runs of whitespace, no empty pieces
SplitWS(s) == SelectSeq(SplitAcc(s, Whitespace, <<>>, <<>>), LAMBDA t : Len(t) > 0)

RECURSIVE LStrip(_)
LStrip(s) == IF Len(s) > 0 /\ Head(s) \in Whitespace THEN LStrip(Tail(s)) ELSE s

RECURSIVE RStrip(_)
RStrip(s) ==
    IF Len(s) > 0 /\ s[Len(s)] \in Whitespace THEN RStrip(SubSeq(s, 1, Len(s) - 1)) ELSE s

\* str.strip()
Strip(s) == RStrip(LStrip(s))

\* seq[:n]
Take(seq, n) == SubSeq(seq, 1, IF Len(seq) < n THEN Len(seq) ELSE n)

RECURSIVE SumSeq(_)
SumSeq(seq) == IF Len(seq) = 0 THEN 0 ELSE Head(seq) + SumSeq(Tail(seq))

(***************************************************************************)
(* Numbers.  Python floats that are quotients (average ratings, scores)    *)
(* are kept as exact fractions [num, den] with den > 0.                    *)
(***************************************************************************)

Frac(n, d) == [num |-> n, den |-> d]
FracLess(a, b) == a.num * b.den < b.num * a.den
FracEq(a, b) == a.num * b.den = b.num * a.den

\* index of the element Python's min(seq, key=...) returns: the first minimal one
FirstMinIndex(keys) ==
    CHOOSE i \in 1..Len(keys) :
        /\ \A j \in 1..Len(keys) : ~FracLess(keys[j], keys[i])
        /\ \A j \in 1..(i - 1) : FracLess(keys[i], keys[j])

\* index of the element Python's max(seq, key=...) returns: the first maximal one
FirstMaxIndex(keys) ==
    CHOOSE i \in 1..Len(keys) :
        /\ \A j \in 1..Len(keys) : ~FracLess(keys[i], keys[j])
        /\ \A j \in 1..(i - 1) : FracLess(keys[j], keys[i])

(***************************************************************************)
(* Results of calls that may raise                                         *)
(***************************************************************************)

\* Python's None
None == [agent |-> "None"]

\* a call that returned v / a call that raised; backend names the backend
\* that threw ("none" for an exception of the program's own, named by error)
Ok(v) == [raises |-> FALSE, value |-> v, backend |-> "none", error |-> ""]
Raise(b) == [raises |-> TRUE, value |-> None, backend |-> b, error |-> "backend failure"]
RaiseOwn(e) == [raises |-> TRUE, value |-> None, backend |-> "none", error |-> e]

Backends == {"EntityExtractor", "CatalogStore", "ReviewIndex"}
Faults == Backends \cup {"none"}
CatalogFaults == {"none", "CatalogStore"}

(***************************************************************************)
(* The backing stores.  A store gives every catalog product a price and    *)
(* the ratings of its reviews.  StaleId is an id the catalog does not      *)
(* hold.  A backend that is down (fault) throws on every call made to it.  *)
(***************************************************************************)

ProductIds == {"p1", "p2", "p3"}
StaleId == "p0"
AllIds == ProductIds \cup {StaleId}

\* the order in which the catalog returns the matches of a query without ORDER BY
ScanOrder == <<"p1", "p2", "p3">>

ProductName(p) ==
    CASE p = "p1" -> <<"i","P","h","o","n","e"," ","1","5">>
      [] p = "p2" -> <<"G","a","l","a","x","y"," ","S","2","4">>
      [] p = "p3" -> <<"i","P","h","o","n","e"," ","1","5"," ","P","r","o">>
      [] OTHER -> <<"i","P","h","o","n","e"," ","S","E">>

PriceValues == {100, 200}
ReviewLists == {<<>>, <<4>>, <<5>>, <<3, 5>>}

Stores == [price : [ProductIds -> PriceValues], reviews : [ProductIds -> ReviewLists]]

\* GraphTools.get_product_by_id
get_product_by_id(st, fault, product_id) ==
    IF fault = "CatalogStore" THEN Raise("CatalogStore")
    ELSE IF product_id \in ProductIds
         THEN Ok([id |-> product_id, name |-> ProductName(product_id),
                  price |-> st.price[product_id]])
         ELSE Ok(None)

\* GraphTools.search_products_by_name
search_products_by_name(st, fault, search_term, limit) ==
    IF fault = "CatalogStore" THEN Raise("CatalogStore")
    ELSE LET hits == SelectSeq(ScanOrder,
                        LAMBDA p : Contains(Lower(ProductName(p)), Lower(search_term)))
         IN Ok(Take([i \in 1..Len(hits) |->
                        [id |-> hits[i], name |-> ProductName(hits[i]),
                         price |-> st.price[hits[i]]]], limit))

\* VectorTools.get_product_reviews
get_product_reviews(st, product_id) ==
    IF product_id \in ProductIds THEN st.reviews[product_id] ELSE <<>>

\* VectorTools.get_product_sentiment_summary
get_product_sentiment_summary(st, fault, product_id) ==
    IF fault = "ReviewIndex" THEN Raise("ReviewIndex")
    ELSE LET reviews == get_product_reviews(st, product_id)
         IN IF Len(reviews) = 0
            THEN Ok([product_id |-> product_id, review_count |-> 0,
                     average_rating |-> Frac(0, 1)])
            ELSE Ok([product_id |-> product_id, review_count |-> Len(reviews),
                     average_rating |-> Frac(SumSeq(reviews), Len(reviews))])

(***************************************************************************)
(* CompareTools                                                            *)
(***************************************************************************)

\* CompareTools.extract_product_names_from_query: content is the answer of
\* the language model; the call throws when the extractor is down, and the
\* except clause turns that into []
extract_product_names_from_query(content, fault) ==
    IF fault = "EntityExtractor" THEN <<>>
    ELSE LET stripped == Strip(content)
         IN IF stripped = str_NONE THEN <<>>
            ELSE LET lines == SplitLines(stripped)
                     kept == SelectSeq(lines, LAMBDA l : Len(Strip(l)) > 0)
                 IN [i \in 1..Len(kept) |-> Strip(kept[i])]

\* the loop body of find_products_by_names for one name: <<id>> or <<>>
FindOneName(st, fault, name) ==
    LET results == search_products_by_name(st, fault, name, 5)
    IN IF results.raises THEN results
       ELSE IF Len(results.value) > 0 THEN Ok(<<results.value[1].id>>)
       ELSE LET key_terms == SelectSeq(SplitWS(name), LAMBDA term : Len(term) > 3)
                found == SelectSeq(key_terms, LAMBDA term :
                            Len(search_products_by_name(st, fault, term, 3).value) > 0)
            IN IF Len(found) > 0
               THEN Ok(<<search_products_by_name(st, fault, found[1], 3).value[1].id>>)
               ELSE Ok(<<>>)

\* CompareTools.find_products_by_names
RECURSIVE find_products_by_names(_, _, _)
find_products_by_names(st, fault, product_names) ==
    IF Len(product_names) = 0 THEN Ok(<<>>)
    ELSE LET one == FindOneName(st, fault, Head(product_names))
         IN IF one.raises THEN one
            ELSE LET rest == find_products_by_names(st, fault, Tail(product_names))
                 IN IF rest.raises THEN rest ELSE Ok(one.value \o rest.value)

\* the loop of compare_products: one entry per product id the catalog holds
RECURSIVE CompareEntries(_, _, _)
CompareEntries(st, fault, product_ids) ==
    IF Len(product_ids) = 0 THEN Ok(<<>>)
    ELSE LET product == get_product_by_id(st, fault, Head(product_ids))
         IN IF product.raises THEN product
            ELSE IF product.value = None THEN CompareEntries(st, fault, Tail(product_ids))
            ELSE LET sentiment == get_product_sentiment_summary(st, fault, Head(product_ids))
                 IN IF sentiment.raises THEN sentiment
                    ELSE LET rest == CompareEntries(st, fault, Tail(product_ids))
                             entry == [id |-> Head(product_ids),
                                       name |-> product.value.name,
                                       price |-> product.value.price,
                                       review_count |-> sentiment.value.review_count,
                                       average_rating |-> sentiment.value.average_rating]
                         IN IF rest.raises THEN rest ELSE Ok(<<entry>> \o rest.value)

PriceKeyNegated(x) == Frac(0 - x.price, 1)

\* key of the price winner: x['price']
PriceKey(x) == Frac(x.price, 1)

\* key of the rating winner: x['average_rating'] if x['average_rating'] > 0 else 0
RatingKey(x) == IF x.average_rating.num > 0 THEN x.average_rating ELSE Frac(0, 1)

\* CompareTools.compare_products (the spec table of the result is left out)
compare_products(st, fault, product_ids) ==
    LET entries == CompareEntries(st, fault, product_ids)
    IN IF entries.raises THEN entries
       ELSE LET products == entries.value
            IN IF Len(products) > 0
               THEN Ok([products |-> products,
                        price_winner |->
                            products[FirstMinIndex([i \in 1..Len(products) |->
                                                      PriceKey(products[i])])].id,
                        rating_winner |->
                            products[FirstMaxIndex([i \in 1..Len(products) |->
                                                      RatingKey(products[i])])].id])
               ELSE Ok([products |-> <<>>, price_winner |-> "None",
                        rating_winner |-> "None"])

\* price_score and rating_score of recommend_best
PriceScore(p, min_price, price_range) ==
    Frac(price_range - (p.price - min_price), price_range)

RatingScore(p, max_rating) ==
    Frac(p.average_rating.num * max_rating.den, p.average_rating.den * max_rating.num)

\* price_score * criteria['price'] + rating_score * criteria['rating'],
\* criteria holding the weights in tenths
WeightedScore(price_score, rating_score, criteria) ==
    Frac(price_score.num * criteria.price * rating_score.den
           + rating_score.num * criteria.rating * price_score.den,
         price_score.den * rating_score.den * 10)

MaxPrice(products) ==
    CHOOSE m \in {products[i].price : i \in 1..Len(products)} :
        \A i \in 1..Len(products) : products[i].price <= m

MinPrice(products) ==
    CHOOSE m \in {products[i].price : i \in 1..Len(products)} :
        \A i \in 1..Len(products) : m <= products[i].price

\* max(p['average_rating'] for p in products)
TopRating(products) ==
    products[FirstMaxIndex([i \in 1..Len(products) |->
                               products[i].average_rating])].average_rating

\* max(products, key=lambda x: x['score']) and the reasons given for it
BestProduct(products, criteria, min_price, price_range, max_rating) ==
    LET score == [i \in 1..Len(products) |->
                     WeightedScore(PriceScore(products[i], min_price, price_range),
                                   RatingScore(products[i], max_rating), criteria)]
        best == FirstMaxIndex(score)
    IN [recommended_id |-> products[best].id,
        recommended_name |-> products[best].name,
        score |-> score[best],
        lowest_price |-> products[best].price = min_price,
        highest_rating |-> FracEq(products[best].average_rating, max_rating),
        many_reviews |-> products[best].review_count > 10]

\* recommend_best from "products = comparison['products']" on
ScoreProducts(products, criteria) ==
    BestProduct(products, criteria, MinPrice(products),
                IF MaxPrice(products) # MinPrice(products)
                THEN MaxPrice(products) - MinPrice(products) ELSE 1,
                IF TopRating(products).num # 0 THEN TopRating(products) ELSE Frac(1, 1))

\* recommend_best after its call of compare_products
RecommendFrom(comparison, criteria) ==
    IF comparison.raises THEN comparison
    ELSE IF Len(comparison.value.products) = 0
    THEN Ok([recommended_id |-> "None", reason |-> "No products found"])
    ELSE Ok(ScoreProducts(comparison.value.products, criteria))

\* CompareTools.recommend_best
recommend_best(st, fault, product_ids, criteria) ==
    RecommendFrom(compare_products(st, fault, product_ids), criteria)

(***************************************************************************)
(* CompareAgent                                                            *)
(***************************************************************************)

EmptyContext == [keys |-> {}, product_ids |-> <<>>]

\* context.get('product_ids', []) if context else []
ContextProductIds(ctx) ==
    IF "product_ids" \in ctx.keys THEN ctx.product_ids ELSE <<>>

CriteriaQualityFirst(query) ==
    LET query_lower == Lower(query)
    IN IF AnyIn(quality_words, query_lower) THEN [price |-> 3, rating |-> 7]
       ELSE IF AnyIn(budget_words, query_lower) THEN [price |-> 7, rating |-> 3]
       ELSE [price |-> 5, rating |-> 5]

\* the weights chosen from the query, in tenths
Criteria(query) ==
    LET query_lower == Lower(query)
    IN IF AnyIn(budget_words, query_lower) THEN [price |-> 7, rating |-> 3]
       ELSE IF AnyIn(quality_words, query_lower) THEN [price |-> 3, rating |-> 7]
       ELSE [price |-> 5, rating |-> 5]

CompareFailure(thinking, error) ==
    [agent |-> "Compare Agent", success |-> FALSE, thinking |-> thinking, error |-> error]

LimitProductsAll(product_ids) == product_ids

\* if len(product_ids) > 5: product_ids = product_ids[:5]
LimitProducts(product_ids) ==
    IF Len(product_ids) > 5 THEN Take(product_ids, 5) ELSE product_ids

\* a result of CompareAgent.process with its history: the product ids it
\* resolved and the calls it made to compare_products and recommend_best
\* (resolved is FALSE when the resolution itself raised)
WithTrace(r, resolved, ids, tool_calls) ==
    [raises |-> r.raises, value |-> r.value, backend |-> r.backend, error |-> r.error,
     resolved |-> resolved, resolved_ids |-> ids, tool_calls |-> tool_calls]

ToolCall(tool, product_ids) == [tool |-> tool, product_ids |-> product_ids]

\* CompareAgent.process from "if len(product_ids) < 2" on
CompareResolved(query, st, fault, thinking0, ids0) ==
    IF Len(ids0) < 2
    THEN WithTrace(Ok(CompareFailure(Append(thinking0, "Need at least 2 products to compare"),
                                     "Insufficient products for comparison")),
                   TRUE, ids0, <<>>)
    ELSE LET product_ids == LimitProducts(ids0)
             thinking1 == (IF Len(ids0) > 5
                           THEN Append(thinking0, "Too many products, limiting to top 5")
                           ELSE thinking0)
                          \o <<"Comparing products...",
                               "Gathering product details and reviews...">>
             comparison == compare_products(st, fault, product_ids)
             call1 == <<ToolCall("compare_products", product_ids)>>
         IN IF comparison.raises THEN WithTrace(comparison, TRUE, ids0, call1)
            ELSE LET criteria == Criteria(query)
                     thinking2 == Append(thinking1, "Compared products")
                                  \o (IF criteria.price = 7
                                      THEN <<"Prioritizing budget-friendly options">>
                                      ELSE IF criteria.rating = 7
                                      THEN <<"Prioritizing quality and ratings">>
                                      ELSE <<>>)
                     recommendation == recommend_best(st, fault, product_ids, criteria)
                     call2 == Append(call1, ToolCall("recommend_best", product_ids))
                 IN IF recommendation.raises THEN WithTrace(recommendation, TRUE, ids0, call2)
                    \* recommendation['recommended_name'] of a recommendation without one
                    ELSE IF recommendation.value.recommended_id = "None"
                    THEN WithTrace(RaiseOwn("KeyError: recommended_name"), TRUE, ids0, call2)
                    ELSE WithTrace(Ok([agent |-> "Compare Agent",
                                       comparison |-> comparison.value,
                                       criteria |-> criteria,
                                       recommendation |-> recommendation.value,
                                       thinking |-> Append(thinking2, "Recommended"),
                                       success |-> TRUE]),
                                   TRUE, ids0, call2)

\* CompareAgent.process
CompareAgentProcess(query, ctx, content, st, fault) ==
    LET thinking0 == <<"Analyzing query for product information needs...">>
        given == ContextProductIds(ctx)
    IN IF Len(given) > 0 THEN CompareResolved(query, st, fault, thinking0, given)
       ELSE LET thinking1 == Append(thinking0, "Extracting product names from query...")
                product_names == extract_product_names_from_query(content, fault)
            IN IF Len(product_names) > 0
               THEN LET found == find_products_by_names(st, fault, product_names)
                    IN IF found.raises THEN WithTrace(found, FALSE, <<>>, <<>>)
                       ELSE CompareResolved(query, st, fault,
                                            Append(thinking1, "Found products"), found.value)
               ELSE WithTrace(Ok(CompareFailure(
                                    Append(thinking1, "Could not extract products to compare"),
                                    "No products identified for comparison")),
                              TRUE, <<>>, <<>>)

(***************************************************************************)
(* Specification SpecTools: CompareTools.compare_products called on any    *)
(* list of at most MaxCompared product ids, over any store.                *)
(***************************************************************************)

MaxCompared == 3

IdLists(n) == UNION { [1..k -> AllIds] : k \in 0..n }

\* the variables of Orchestrator.process, at rest
OrchestratorIdle ==
    /\ pc = "idle"
    /\ user_query = <<>>
    /\ execution_trace = [steps |-> <<>>, agents_used |-> <<>>,
                          final_answer |-> "", success |-> FALSE]
    /\ intent = None
    /\ context = EmptyContext
    /\ agent_results = [graph |-> None, review |-> None, filter |-> None, compare |-> None]
    /\ calls = <<>>
    /\ faults = {}
    /\ raised = FALSE
    /\ review_context = None

orch_vars == <<pc, user_query, execution_trace, intent, context, agent_results,
               calls, faults, raised, review_context>>
agent_vars == <<cmp_query, cmp_context, cmp_result>>
service_vars == <<sessions, storage, memory>>
tool_vars == <<tool_ids, tool_result, direct_call, service_vars>>

\* the user sessions that call the shared singletons at the same time
SessionIds == {1, 2}

\* the locals of a call of Orchestrator.process that has not begun
SessionIdle ==
    [pc |-> "idle", user_query |-> <<>>,
     execution_trace |-> [steps |-> <<>>, agents_used |-> <<>>,
                          final_answer |-> "", success |-> FALSE],
     intent |-> None, context |-> EmptyContext,
     agent_results |-> [graph |-> None, review |-> None, filter |-> None, compare |-> None],
     handed |-> <<>>]

ConversationIds == {"c1", "c2"}

\* both stores without messages
StorageIdle ==
    [primary |-> [c \in ConversationIds |-> <<>>],
     fallback |-> [c \in ConversationIds |-> <<>>],
     saved |-> [c \in ConversationIds |-> <<>>],
     clock |-> 0,
     returned |-> None]

\* the conversations table without rows, no call of create_new_conversation
\* in progress
MemoryIdle ==
    [rows |-> {}, sequence |-> 0,
     callers |-> [s \in SessionIds |-> [pc |-> "idle", inserted |-> 0, returned |-> 0]]]

ServicesIdle ==
    /\ sessions = [s \in SessionIds |-> SessionIdle]
    /\ storage = StorageIdle
    /\ memory = MemoryIdle

AgentIdle == cmp_query = <<>> /\ cmp_context = EmptyContext /\ cmp_result = None
ToolIdle == tool_ids = <<>> /\ tool_result = None /\ direct_call = None /\ ServicesIdle

InitTools == OrchestratorIdle /\ AgentIdle /\ ToolIdle /\ store \in Stores

\* one call of compare_products
CompareProducts ==
    /\ tool_result = None
    /\ \E ids \in IdLists(MaxCompared), fault \in {"none", "CatalogStore", "ReviewIndex"} :
        /\ tool_ids' = ids
        /\ tool_result' = compare_products(store, fault, ids)
        /\ UNCHANGED <<store, orch_vars, agent_vars, direct_call, service_vars>>

NextTools == CompareProducts

SpecTools == InitTools /\ [][NextTools]_vars

(***************************************************************************)
(* Specification SpecRecommend: CompareTools.recommend_best called on any  *)
(* list of at most MaxRecommended product ids, over any store, with the    *)
(* weights of CompareAgent.process, and called again with both weights     *)
(* multiplied by ScaleFactor.                                              *)
(***************************************************************************)

MaxRecommended == 2

ScaleFactor == 2

\* the criteria of CompareAgent.process, in tenths
WeightSets == { [price |-> 5, rating |-> 5], [price |-> 7, rating |-> 3],
                [price |-> 3, rating |-> 7] }

Rescaled(criteria, factor) ==
    [price |-> criteria.price * factor, rating |-> criteria.rating * factor]

RecommendBest ==
    /\ direct_call = None
    /\ \E ids \in IdLists(MaxRecommended), fault \in {"none", "CatalogStore", "ReviewIndex"},
          criteria \in WeightSets :
        /\ tool_ids' = ids
        /\ tool_result' = compare_products(store, fault, ids)
        /\ direct_call' = [op |-> "recommend_best",
                           criteria |-> criteria,
                           result |-> recommend_best(store, fault, ids, criteria),
                           rescaled |-> recommend_best(store, fault, ids,
                                                       Rescaled(criteria, ScaleFactor))]
        /\ UNCHANGED <<store, orch_vars, agent_vars, service_vars>>

NextRecommend == RecommendBest

SpecRecommend == InitTools /\ [][NextRecommend]_vars

(***************************************************************************)
(* Specification SpecAgent: CompareAgent.process called with any query of  *)
(* AgentQueries, a context that is empty or carries at most MaxIds product *)
(* ids, any answer of the language model and any backend down.             *)
(***************************************************************************)

MaxIds == 6

AgentQueries ==
    { JoinWords(<<<<"C","o","m","p","a","r","e">>, <<"p","h","o","n","e","s">>>>), JoinWords(<<<<"C","o","m","p","a","r","e">>, <<"c","h","e","a","p">>>>),
      JoinWords(<<<<"C","o","m","p","a","r","e">>, <<"b","e","s","t">>>>),
      JoinWords(<<<<"C","o","m","p","a","r","e">>, <<"c","h","e","a","p">>, <<"b","e","s","t">>>>) }

\* a store with distinct winners, and a store without any review
AgentStores ==
    { [price |-> [p \in ProductIds |-> IF p = "p1" THEN 100 ELSE 200],
       reviews |-> [p \in ProductIds |->
                      IF p = "p1" THEN <<4>> ELSE IF p = "p2" THEN <<5>> ELSE <<>>]],
      [price |-> [p \in ProductIds |-> 100], reviews |-> [p \in ProductIds |-> <<>>]] }

AgentContexts ==
    {EmptyContext} \cup
    { [keys |-> {"product_ids"}, product_ids |-> ids] : ids \in IdLists(MaxIds) }

InitAgent == OrchestratorIdle /\ AgentIdle /\ ToolIdle /\ store \in AgentStores

\* one call of CompareAgent.process
CompareProcess ==
    /\ cmp_result = None
    /\ \E query \in AgentQueries, ctx \in AgentContexts, content \in LLMContents,
          fault \in Faults :
        \* the language model is asked only when the context gives no ids
        /\ Len(ContextProductIds(ctx)) > 0 => content = <<"N","O","N","E">>
        /\ cmp_query' = query
        /\ cmp_context' = ctx
        /\ cmp_result' = [content |-> content] @@
                         CompareAgentProcess(query, ctx, content, store, fault)
        /\ UNCHANGED <<store, orch_vars, tool_vars>>

NextAgent == CompareProcess

SpecAgent == InitAgent /\ [][NextAgent]_vars

(***************************************************************************)
(* Keyword tables of FilterAgent, ReviewAgent, GraphAgent and GraphTools   *)
(***************************************************************************)

under_keywords ==
    { <<"u","n","d","e","r">>
    , <<"b","e","l","o","w">>
    , <<"l","e","s","s"," ","t","h","a","n">>
    , <<"m","a","x">>
    , <<"m","a","x","i","m","u","m">> }

above_keywords ==
    { <<"a","b","o","v","e">>
    , <<"o","v","e","r">>
    , <<"m","o","r","e"," ","t","h","a","n">>
    , <<"m","i","n">>
    , <<"m","i","n","i","m","u","m">> }

specification_keywords ==
    { <<"s","p","e","c","i","f","i","c","a","t","i","o","n">>
    , <<"s","p","e","c","i","f","i","c","a","t","i","o","n","s">>
    , <<"s","p","e","c","s">>
    , <<"s","p","e","c">>
    , <<"d","e","t","a","i","l","s">>
    , <<"f","e","a","t","u","r","e","s">> }

question_starters ==
    { <<"w","h","a","t"," ","a","r","e">>
    , <<"w","h","a","t"," ","i","s">>
    , <<"t","e","l","l"," ","m","e"," ","a","b","o","u","t">>
    , <<"s","h","o","w"," ","m","e">> }

name_keywords ==
    { <<"a","b","o","u","t">>
    , <<"f","o","r">>
    , <<"o","f">>
    , <<"t","h","i","n","k"," ","a","b","o","u","t">> }

stop_words ==
    { <<"w","h","a","t">>
    , <<"w","h","i","c","h">>
    , <<"s","h","o","w">>
    , <<"m","e">>
    , <<"f","i","n","d">>
    , <<"g","e","t">>
    , <<"t","e","l","l">>
    , <<"a","b","o","u","t">>
    , <<"i","s">>
    , <<"a","r","e">>
    , <<"t","h","e">>
    , <<"o","f">> }

review_search_keywords ==
    { <<"r","e","v","i","e","w","s">>
    , <<"r","a","t","e","d">>
    , <<"o","p","i","n","i","o","n">>
    , <<"t","h","i","n","k">>
    , <<"c","u","s","t","o","m","e","r","s"," ","s","a","y">>
    , <<"f","e","e","d","b","a","c","k">> }

top_rated_keywords ==
    { <<"g","o","o","d">>
    , <<"b","e","s","t">>
    , <<"e","x","c","e","l","l","e","n","t">>
    , <<"g","r","e","a","t">>
    , <<"t","o","p"," ","r","a","t","e","d">>
    , <<"h","i","g","h","e","s","t"," ","r","a","t","e","d">> }

brand_Apple == <<"A","p","p","l","e">>
brand_Samsung == <<"S","a","m","s","u","n","g">>

\* CATEGORY_SYNONYMS of graph_tools.py, in the order of the dict
CATEGORY_SYNONYMS ==
    << [synonym |-> <<"p","h","o","n","e">>, category |-> "Smartphones"]
    , [synonym |-> <<"p","h","o","n","e","s">>, category |-> "Smartphones"]
    , [synonym |-> <<"m","o","b","i","l","e">>, category |-> "Smartphones"]
    , [synonym |-> <<"m","o","b","i","l","e","s">>, category |-> "Smartphones"]
    , [synonym |-> <<"m","o","b","i","l","e"," ","p","h","o","n","e">>, category |-> "Smartphones"]
    , [synonym |-> <<"m","o","b","i","l","e"," ","p","h","o","n","e","s">>, category |-> "Smartphones"]
    , [synonym |-> <<"s","m","a","r","t","p","h","o","n","e">>, category |-> "Smartphones"]
    , [synonym |-> <<"c","e","l","l","p","h","o","n","e">>, category |-> "Smartphones"]
    , [synonym |-> <<"l","a","p","t","o","p">>, category |-> "Laptops"]
    , [synonym |-> <<"l","a","p","t","o","p","s">>, category |-> "Laptops"]
    , [synonym |-> <<"c","o","m","p","u","t","e","r">>, category |-> "Laptops"]
    , [synonym |-> <<"c","o","m","p","u","t","e","r","s">>, category |-> "Laptops"]
    , [synonym |-> <<"n","o","t","e","b","o","o","k">>, category |-> "Laptops"]
    , [synonym |-> <<"h","e","a","d","p","h","o","n","e">>, category |-> "Headphones"]
    , [synonym |-> <<"h","e","a","d","p","h","o","n","e","s">>, category |-> "Headphones"]
    , [synonym |-> <<"e","a","r","p","h","o","n","e">>, category |-> "Headphones"]
    , [synonym |-> <<"e","a","r","p","h","o","n","e","s">>, category |-> "Headphones"]
    , [synonym |-> <<"e","a","r","b","u","d">>, category |-> "Headphones"]
    , [synonym |-> <<"e","a","r","b","u","d","s">>, category |-> "Headphones"]
    , [synonym |-> <<"t","a","b","l","e","t">>, category |-> "Tablets"]
    , [synonym |-> <<"t","a","b","l","e","t","s">>, category |-> "Tablets"]
    , [synonym |-> <<"i","p","a","d">>, category |-> "Tablets"]
    , [synonym |-> <<"w","a","t","c","h">>, category |-> "Smartwatches"]
    , [synonym |-> <<"w","a","t","c","h","e","s">>, category |-> "Smartwatches"]
    , [synonym |-> <<"s","m","a","r","t","w","a","t","c","h">>, category |-> "Smartwatches"]
    , [synonym |-> <<"s","p","e","a","k","e","r">>, category |-> "Speakers"]
    , [synonym |-> <<"s","p","e","a","k","e","r","s">>, category |-> "Speakers"]
    , [synonym |-> <<"c","a","m","e","r","a">>, category |-> "Cameras"]
    , [synonym |-> <<"c","a","m","e","r","a","s">>, category |-> "Cameras"]
    , [synonym |-> <<"c","o","n","s","o","l","e">>, category |-> "Gaming Consoles"]
    , [synonym |-> <<"c","o","n","s","o","l","e","s">>, category |-> "Gaming Consoles"]
    , [synonym |-> <<"g","a","m","i","n","g"," ","c","o","n","s","o","l","e">>, category |-> "Gaming Consoles"]
    >>

\* the ids of a list of products, in order
IdsOf(results) == [i \in 1..Len(results) |-> results[i].id]

(***************************************************************************)
(* Scanning text as the regular expressions of the specialists do          *)
(***************************************************************************)

Digits == {"0", "1", "2", "3", "4", "5", "6", "7", "8", "9"}

DigitValue(c) ==
    CASE c = "0" -> 0 [] c = "1" -> 1 [] c = "2" -> 2 [] c = "3" -> 3 [] c = "4" -> 4
      [] c = "5" -> 5 [] c = "6" -> 6 [] c = "7" -> 7 [] c = "8" -> 8 [] c = "9" -> 9

\* kw matches s at position i
StartsAt(s, i, kw) ==
    i >= 1 /\ i + Len(kw) - 1 <= Len(s) /\ SubSeq(s, i, i + Len(kw) - 1) = kw

\* \d matches s at position k
IsDigitAt(s, k) == k >= 1 /\ k <= Len(s) /\ s[k] \in Digits

\* the position after \s* matched from position k
RECURSIVE SkipWS(_, _)
SkipWS(s, k) == IF k <= Len(s) /\ s[k] \in Whitespace THEN SkipWS(s, k + 1) ELSE k

\* the position after \s*₹?\s* matched from position k
SkipCurrency(s, k) ==
    IF SkipWS(s, k) <= Len(s) /\ s[SkipWS(s, k)] = "rupee"
    THEN SkipWS(s, SkipWS(s, k) + 1)
    ELSE SkipWS(s, k)

\* the last position of \d+(?:,\d+)* matched from the digit at position k
RECURSIVE AmountEnd(_, _)
AmountEnd(s, k) ==
    IF IsDigitAt(s, k + 1) THEN AmountEnd(s, k + 1)
    ELSE IF k + 1 <= Len(s) /\ s[k + 1] = "," /\ IsDigitAt(s, k + 2) THEN AmountEnd(s, k + 2)
    ELSE k

\* float(price_str.replace(',', ''))
RECURSIVE ParseAmount(_)
ParseAmount(str) ==
    IF Len(str) = 0 THEN 0
    ELSE IF str[Len(str)] = "," THEN ParseAmount(SubSeq(str, 1, Len(str) - 1))
    ELSE ParseAmount(SubSeq(str, 1, Len(str) - 1)) * 10 + DigitValue(str[Len(str)])

AmountAt(s, k) == ParseAmount(SubSeq(s, k, AmountEnd(s, k)))

Min(S) == CHOOSE x \in S : \A y \in S : x <= y

\* where (?:kw1|kw2|...)\s*₹?\s*(\d+(?:,\d+)*) matches s
KeywordAmountAt(s, i, kw) == StartsAt(s, i, kw) /\ IsDigitAt(s, SkipCurrency(s, i + Len(kw)))

KeywordAmountStarts(s, kws) ==
    { i \in 1..Len(s) : \E kw \in kws : KeywordAmountAt(s, i, kw) }

\* group(1) of re.search of that pattern, as a number
KeywordAmount(s, kws) ==
    LET i == Min(KeywordAmountStarts(s, kws))
        kw == CHOOSE w \in kws : KeywordAmountAt(s, i, w)
    IN AmountAt(s, SkipCurrency(s, i + Len(kw)))

\* between\s*₹?\s*(\d+(?:,\d+)*)\s*(?:and|to)\s*₹?\s*(\d+(?:,\d+)*):
\* the position of the second amount when the pattern matches at i, else 0
BetweenSecond(s, i) ==
    IF KeywordAmountAt(s, i, <<"b","e","t","w","e","e","n">>)
    THEN LET j == SkipWS(s, AmountEnd(s, SkipCurrency(s, i + Len(<<"b","e","t","w","e","e","n">>))) + 1)
         IN IF KeywordAmountAt(s, j, <<"a","n","d">>) THEN SkipCurrency(s, j + Len(<<"a","n","d">>))
            ELSE IF KeywordAmountAt(s, j, <<"t","o">>) THEN SkipCurrency(s, j + Len(<<"t","o">>))
            ELSE 0
    ELSE 0

BetweenStarts(s) == { i \in 1..Len(s) : BetweenSecond(s, i) > 0 }

\* no newline in s between positions a and b ("." does not match it)
SameLine(s, a, b) == \A k \in a..b : s[k] # "\n"

\* the positions from a on where a match of (\d+)\s*unit has the last
\* character of its number (dot: of \d+\.?\d*)
AmountUnitEnds(s, a, unit, dot) ==
    { e \in a..Len(s) :
        /\ (IsDigitAt(s, e) \/ (dot /\ s[e] = "." /\ IsDigitAt(s, e - 1)))
        /\ StartsAt(s, SkipWS(s, e + 1), unit) }

\* the position after the unit of such a match
AfterUnit(s, e, unit) == SkipWS(s, e + 1) + Len(unit)

\* re.search(r'(\d+)\s*unit\s+word', s)
AmountUnitWord(s, unit, word) ==
    \E e \in AmountUnitEnds(s, 1, unit, FALSE) :
        /\ AfterUnit(s, e, unit) <= Len(s)
        /\ s[AfterUnit(s, e, unit)] \in Whitespace
        /\ StartsAt(s, SkipWS(s, AfterUnit(s, e, unit)), word)

\* re.search(r'word.*?(\d+)\s*unit', s)
WordAmountUnit(s, word, unit, dot) ==
    \E i \in 1..Len(s) :
        /\ StartsAt(s, i, word)
        /\ \E e \in AmountUnitEnds(s, i + Len(word), unit, dot) : SameLine(s, i, e)

\* re.search(r'(\d+\.?\d*)\s*unit.*word', s)
AmountUnitThenWord(s, unit, word) ==
    \E e \in AmountUnitEnds(s, 1, unit, TRUE) :
        \E i \in AfterUnit(s, e, unit)..Len(s) :
            StartsAt(s, i, word) /\ SameLine(s, AfterUnit(s, e, unit), i - 1)

(***************************************************************************)
(* The catalog: brands and categories of the products, and the queries of  *)
(* GraphTools and FilterTools over it.  A query without ORDER BY returns   *)
(* the products in scan order.                                             *)
(***************************************************************************)

\* float('inf')
Infinity == 1000000

NoBrand == <<>>
NoCategory == ""
NoName == <<>>

ProductBrand(p) == IF p = "p2" THEN brand_Samsung ELSE brand_Apple
ProductCategory(p) == "Smartphones"

\* one row of "RETURN p.id as id, p.name as name, p.price as price, b.name
\* as brand, c.name as category"
CatalogRow(st, p) ==
    [id |-> p, name |-> ProductName(p), price |-> st.price[p],
     brand |-> ProductBrand(p), category |-> ProductCategory(p)]

\* the products of a larger catalog, after those of ScanOrder in scan order
MoreProducts ==
    <<"p4", "p5", "p6", "p7", "p8", "p9", "p10", "p11", "p12", "p13", "p14", "p15",
      "p16", "p17", "p18", "p19", "p20", "p21", "p22">>

\* the Product nodes of a store, in scan order
ScanOf(st) == SelectSeq(ScanOrder \o MoreProducts, LAMBDA p : p \in DOMAIN st.price)

CatalogRows(st) == [i \in 1..Len(ScanOf(st)) |-> CatalogRow(st, ScanOf(st)[i])]

\* GraphTools.get_all_brands: the brand names, ORDER BY b.name
get_all_brands(fault) ==
    IF fault = "CatalogStore" THEN Raise("CatalogStore")
    ELSE Ok(<<brand_Apple, brand_Samsung>>)

\* GraphTools.get_all_categories
get_all_categories(fault) ==
    IF fault = "CatalogStore" THEN Raise("CatalogStore") ELSE Ok(<<"Smartphones">>)

\* GraphTools.get_brands_by_category
get_brands_by_category(fault, category) ==
    IF fault = "CatalogStore" THEN Raise("CatalogStore")
    ELSE Ok(SelectSeq(<<brand_Apple, brand_Samsung>>,
                      LAMBDA b : \E p \in ProductIds :
                                    ProductBrand(p) = b /\ ProductCategory(p) = category))

\* GraphTools.get_products_by_brand, get_products_by_category and
\* get_products_by_brand_and_category; "" and <<>> stand for no condition
get_products(st, fault, brand, category, limit) ==
    IF fault = "CatalogStore" THEN Raise("CatalogStore")
    ELSE Ok(Take(SelectSeq(CatalogRows(st),
                           LAMBDA row : /\ brand # NoBrand => row.brand = brand
                                        /\ category # NoCategory => row.category = category),
                 limit))

\* GraphTools.map_category: the category of the first synonym, in the order
\* of the table, that the query contains
map_category(query) ==
    LET hits == { i \in 1..Len(CATEGORY_SYNONYMS) :
                    Contains(Lower(query), CATEGORY_SYNONYMS[i].synonym) }
    IN IF hits = {} THEN NoCategory ELSE CATEGORY_SYNONYMS[Min(hits)].category

\* ORDER BY p.price ASC over rows given in scan order
RECURSIVE InsertByPrice(_, _)
InsertByPrice(row, sorted) ==
    IF Len(sorted) = 0 THEN <<row>>
    ELSE IF row.price < Head(sorted).price THEN <<row>> \o sorted
    ELSE <<Head(sorted)>> \o InsertByPrice(row, Tail(sorted))

OrderByScan(rows) == rows

RECURSIVE OrderByPrice(_)
OrderByPrice(rows) ==
    IF Len(rows) = 0 THEN <<>>
    ELSE InsertByPrice(rows[Len(rows)], OrderByPrice(SubSeq(rows, 1, Len(rows) - 1)))

\* WHERE p.price >= $min_price AND p.price <= $max_price
PriceWithin(row, min_price, max_price) ==
    /\ ~FracLess(Frac(row.price, 1), min_price)
    /\ ~FracLess(max_price, Frac(row.price, 1))

\* the rows of the price queries of FilterTools
PriceQuery(st, brand, category, min_price, max_price, limit) ==
    Take(OrderByPrice(SelectSeq(CatalogRows(st),
            LAMBDA row : /\ brand # NoBrand => row.brand = brand
                         /\ category # NoCategory => row.category = category
                         /\ PriceWithin(row, min_price, max_price))),
         limit)

\* FilterTools.filter_by_price
filter_by_price(st, fault, min_price, max_price, limit) ==
    IF fault = "CatalogStore" THEN Raise("CatalogStore")
    ELSE Ok(PriceQuery(st, NoBrand, NoCategory, min_price, max_price, limit))

\* FilterTools.filter_by_brand_and_price
filter_by_brand_and_price(st, fault, brand, min_price, max_price, limit) ==
    IF fault = "CatalogStore" THEN Raise("CatalogStore")
    ELSE Ok(PriceQuery(st, brand, NoCategory, min_price, max_price, limit))

\* FilterTools.filter_by_category_and_price
filter_by_category_and_price(st, fault, category, min_price, max_price, limit) ==
    IF fault = "CatalogStore" THEN Raise("CatalogStore")
    ELSE Ok(PriceQuery(st, NoBrand, category, min_price, max_price, limit))

\* FilterTools.apply_multiple_filters called without spec_filters: the
\* query runs in a try block whose except clause returns []
apply_multiple_filters(st, fault, brand, category, min_price, max_price, limit) ==
    IF fault = "CatalogStore" THEN Ok(<<>>)
    ELSE Ok(PriceQuery(st, brand, category, min_price, max_price, limit))

\* FilterTools.filter_by_spec: the query runs in a try block whose except
\* clause returns []; matching are the rows the store finds
filter_by_spec(fault, matching, limit) ==
    IF fault = "CatalogStore" THEN <<>> ELSE Take(matching, limit)

(***************************************************************************)
(* FilterAgent                                                             *)
(***************************************************************************)

ExtractPricesUnderLast(query_lower) ==
    [min_price |-> IF KeywordAmountStarts(query_lower, above_keywords) # {}
                   THEN Frac(KeywordAmount(query_lower, above_keywords), 1)
                   ELSE Frac(0, 1),
     max_price |-> IF KeywordAmountStarts(query_lower, under_keywords) # {}
                   THEN Frac(KeywordAmount(query_lower, under_keywords), 1)
                   ELSE Frac(Infinity, 1)]

\* the price bounds of _extract_constraints: under, above, between and
\* around are applied in this order, each overwriting the ones before
\* (price * 0.8 and price * 1.2 as exact fractions)
ExtractPrices(query_lower) ==
    IF KeywordAmountStarts(query_lower, {<<"a","r","o","u","n","d">>}) # {}
    THEN [min_price |-> Frac(KeywordAmount(query_lower, {<<"a","r","o","u","n","d">>}) * 4, 5),
          max_price |-> Frac(KeywordAmount(query_lower, {<<"a","r","o","u","n","d">>}) * 6, 5)]
    ELSE IF BetweenStarts(query_lower) # {}
    THEN [min_price |-> Frac(AmountAt(query_lower,
                                      SkipCurrency(query_lower, Min(BetweenStarts(query_lower))
                                                                  + Len(<<"b","e","t","w","e","e","n">>))), 1),
          max_price |-> Frac(AmountAt(query_lower,
                                      BetweenSecond(query_lower,
                                                    Min(BetweenStarts(query_lower)))), 1)]
    ELSE [min_price |-> IF KeywordAmountStarts(query_lower, above_keywords) # {}
                        THEN Frac(KeywordAmount(query_lower, above_keywords), 1)
                        ELSE Frac(0, 1),
          max_price |-> IF KeywordAmountStarts(query_lower, under_keywords) # {}
                        THEN Frac(KeywordAmount(query_lower, under_keywords), 1)
                        ELSE Frac(Infinity, 1)]

\* "for brand in get_all_brands(): if brand.lower() in query_lower"
ExtractBrand(brands, query_lower) ==
    LET hits == { i \in 1..Len(brands) : Contains(query_lower, Lower(brands[i])) }
    IN IF hits = {} THEN NoBrand ELSE brands[Min(hits)]

\* FilterAgent._extract_constraints: brand and category are those of the
\* context when it holds them (the context of the Orchestrator does not);
\* the brands are asked for only when the context gives no brand
ExtractConstraints(query, ctx, fault) ==
    IF "brand" \notin ctx.keys /\ get_all_brands(fault).raises THEN get_all_brands(fault)
    ELSE Ok([min_price |-> ExtractPrices(Lower(query)).min_price,
             max_price |-> ExtractPrices(Lower(query)).max_price,
             brand |-> IF "brand" \in ctx.keys THEN ctx.brand
                       ELSE ExtractBrand(get_all_brands(fault).value, Lower(query)),
             category |-> IF "category" \in ctx.keys THEN ctx.category
                          ELSE map_category(query)])

\* the filter FilterAgent.process applies to the constraints
ApplyFilters(st, fault, c) ==
    IF c.brand # NoBrand /\ c.category # NoCategory
    THEN apply_multiple_filters(st, fault, c.brand, c.category, c.min_price, c.max_price, 20)
    ELSE IF c.brand # NoBrand
    THEN filter_by_brand_and_price(st, fault, c.brand, c.min_price, c.max_price, 20)
    ELSE IF c.category # NoCategory
    THEN filter_by_category_and_price(st, fault, c.category, c.min_price, c.max_price, 20)
    ELSE filter_by_price(st, fault, c.min_price, c.max_price, 20)

FilterStep(c) ==
    IF c.brand # NoBrand /\ c.category # NoCategory
    THEN "Filtering by brand, category and price"
    ELSE IF c.brand # NoBrand THEN "Filtering by brand and price"
    ELSE IF c.category # NoCategory THEN "Filtering by category and price"
    ELSE "Filtering by price only"

FilterResultAlwaysSuccess(c, results) ==
    IF results.raises THEN results
    ELSE Ok([agent |-> "Filter Agent", results |-> results.value, constraints |-> c,
             thinking |-> <<>>, success |-> TRUE])

FilterResult(c, results) ==
    IF results.raises THEN results
    ELSE Ok([agent |-> "Filter Agent",
             results |-> results.value,
             constraints |-> c,
             thinking |-> <<"Analyzing price and constraint requirements...",
                            "Identified constraints", FilterStep(c),
                            "Found products matching constraints">>,
             success |-> Len(results.value) > 0])

FilterConstrained(st, fault, constraints) ==
    IF constraints.raises THEN constraints
    ELSE FilterResult(constraints.value, ApplyFilters(st, fault, constraints.value))

\* FilterAgent.process; fault_brands is the state of the catalog when
\* _extract_constraints asks for the brands, fault_filter when the filter runs
FilterAgentProcess(query, ctx, st, fault_brands, fault_filter) ==
    FilterConstrained(st, fault_filter, ExtractConstraints(query, ctx, fault_brands))

(***************************************************************************)
(* ReviewAgent                                                             *)
(***************************************************************************)

\* the rows of the products with the given ids
RowsOf(st, ids) == [i \in 1..Len(ids) |-> CatalogRow(st, ids[i])]

\* the product ids a search of the review index reports for a query, after
\* "list(set(...))" or search_products_by_review_content
HitLists == { <<>>, <<"p2">>, <<"p3", "p1">> }

\* the product name the patterns of ReviewAgent.process may extract
ExtractedNames == { NoName, <<"i","P","h","o","n","e"," ","1","5">>, <<"l","a","p","t","o","p","s">> }

\* CASE 1: the products named by the context or the query, those without
\* reviews skipped
RECURSIVE ReviewEntries(_, _, _)
ReviewEntries(st, fault, product_ids) ==
    IF Len(product_ids) = 0 THEN Ok(<<>>)
    ELSE LET sentiment == get_product_sentiment_summary(st, fault, Head(product_ids))
         IN IF sentiment.raises THEN sentiment
            ELSE IF sentiment.value.review_count > 0
            THEN LET product == get_product_by_id(st, fault, Head(product_ids))
                     rest == ReviewEntries(st, fault, Tail(product_ids))
                 IN IF product.raises THEN product
                    ELSE IF rest.raises THEN rest
                    ELSE Ok(<<[product |-> product.value, sentiment |-> sentiment.value,
                               relevant_reviews |->
                                   Take(get_product_reviews(st, Head(product_ids)), 2)]>>
                            \o rest.value)
            ELSE ReviewEntries(st, fault, Tail(product_ids))

\* CASE 2 to 4: the products a search reported
RECURSIVE SearchEntries(_, _, _)
SearchEntries(st, fault, product_ids) ==
    IF Len(product_ids) = 0 THEN Ok(<<>>)
    ELSE LET product == get_product_by_id(st, fault, Head(product_ids))
         IN IF product.raises THEN product
            ELSE LET sentiment == get_product_sentiment_summary(st, fault, Head(product_ids))
                     rest == SearchEntries(st, fault, Tail(product_ids))
                 IN IF sentiment.raises THEN sentiment
                    ELSE IF rest.raises THEN rest
                    ELSE Ok(<<[product |-> product.value, sentiment |-> sentiment.value]>>
                            \o rest.value)

ReviewSearchStep(query_lower) ==
    IF AnyIn(review_search_keywords, query_lower) THEN "Searching reviews semantically"
    ELSE IF AnyIn(top_rated_keywords, query_lower) THEN "Searching for top-rated products"
    ELSE "Performing semantic review search"

ReviewResult(thinking, results) ==
    IF results.raises THEN results
    ELSE Ok([agent |-> "Review Agent",
             results |-> results.value,
             thinking |-> Append(thinking, "Analyzed reviews"),
             success |-> Len(results.value) > 0])

ReviewProductsUncut(query, st, fault, thinking, product_ids, hits) ==
    IF Len(product_ids) > 0
    THEN ReviewResult(Append(thinking, "Getting reviews for specific product(s)"),
                      ReviewEntries(st, fault, product_ids))
    ELSE IF fault = "ReviewIndex" THEN Raise("ReviewIndex")
    ELSE ReviewResult(Append(thinking, ReviewSearchStep(Lower(query))),
                      SearchEntries(st, fault, Take(hits, 5)))

\* ReviewAgent.process once product_ids is settled
ReviewProducts(query, st, fault, thinking, product_ids, hits) ==
    IF Len(product_ids) > 0
    THEN ReviewResult(Append(thinking, "Getting reviews for specific product(s)"),
                      ReviewEntries(st, fault, Take(product_ids, 3)))
    ELSE IF fault = "ReviewIndex" THEN Raise("ReviewIndex")
    ELSE ReviewResult(Append(thinking, ReviewSearchStep(Lower(query))),
                      SearchEntries(st, fault, Take(hits, 5)))

\* the search for the product the query names
ReviewNamed(query, st, fault, thinking, found, hits) ==
    IF found.raises THEN found
    ELSE ReviewProducts(query, st, fault,
                        Append(thinking, IF Len(found.value) > 0
                                         THEN "Found matching products"
                                         ELSE "No exact match, falling back to semantic search"),
                        IdsOf(found.value), hits)

\* ReviewAgent.process
ReviewAgentProcess(query, ctx, st, fault, product_name, hits) ==
    IF Len(ContextProductIds(ctx)) = 0 /\ AnyIn(name_keywords, Lower(query))
    THEN IF product_name # NoName
         THEN ReviewNamed(query, st, fault,
                          <<"Analyzing query for review-based insights...",
                            "Attempting to extract specific product name...",
                            "Extracted product name">>,
                          search_products_by_name(st, fault, product_name, 3), hits)
         ELSE ReviewProducts(query, st, fault,
                             <<"Analyzing query for review-based insights...",
                               "Attempting to extract specific product name...">>,
                             <<>>, hits)
    ELSE ReviewProducts(query, st, fault,
                        <<"Analyzing query for review-based insights...">>,
                        ContextProductIds(ctx), hits)

(***************************************************************************)
(* GraphAgent                                                              *)
(***************************************************************************)

\* the results of GraphAgent.process: None, a list of products, or a dict
NoResults == [kind |-> "None"]
ListResults(items) == [kind |-> "list", items |-> items]
DictResults(type, count, items) ==
    [kind |-> "dict", type |-> type, count |-> count, items |-> items]

\* the characters of the names in code point order, as str.__lt__ compares them
CodePoints ==
    <<" ", "0", "1", "2", "3", "4", "5", "6", "7", "8", "9",
      "A", "B", "C", "D", "E", "F", "G", "H", "I", "J", "K", "L", "M",
      "N", "O", "P", "Q", "R", "S", "T", "U", "V", "W", "X", "Y", "Z",
      "a", "b", "c", "d", "e", "f", "g", "h", "i", "j", "k", "l", "m",
      "n", "o", "p", "q", "r", "s", "t", "u", "v", "w", "x", "y", "z">>

Ord(c) == CHOOSE i \in 1..Len(CodePoints) : CodePoints[i] = c

\* s < u for two strings
RECURSIVE StrLess(_, _)
StrLess(s, u) ==
    IF Len(u) = 0 THEN FALSE
    ELSE IF Len(s) = 0 THEN TRUE
    ELSE IF s[1] # u[1] THEN Ord(s[1]) < Ord(u[1])
    ELSE StrLess(Tail(s), Tail(u))

RECURSIVE InsertName(_, _)
InsertName(name, sorted) ==
    IF Len(sorted) = 0 THEN <<name>>
    ELSE IF StrLess(name, Head(sorted)) THEN <<name>> \o sorted
    ELSE <<Head(sorted)>> \o InsertName(name, Tail(sorted))

\* sorted(names)
RECURSIVE Sorted(_)
Sorted(names) ==
    IF Len(names) = 0 THEN <<>>
    ELSE InsertName(names[Len(names)], Sorted(SubSeq(names, 1, Len(names) - 1)))

\* GraphAgent._is_specification_request
IsSpecificationRequest(query_lower) ==
    AnyIn(specification_keywords, query_lower) \/ AnyIn(question_starters, query_lower)

\* GraphAgent._is_counting_query
IsCountingQuery(query_lower) == AnyIn(counting_keywords, query_lower)

\* GraphAgent._is_spec_query
IsSpecQuery(query_lower) ==
    AnyIn(spec_keywords, query_lower) /\ AnyIn(spec_operators, query_lower)

\* some pattern of spec_patterns matches the query
SpecPatternMatches(query_lower) ==
    \/ AmountUnitWord(query_lower, <<"g","b">>, <<"r","a","m">>)
    \/ WordAmountUnit(query_lower, <<"r","a","m">>, <<"g","b">>, FALSE)
    \/ AmountUnitWord(query_lower, <<"g","b">>, <<"s","t","o","r","a","g","e">>)
    \/ WordAmountUnit(query_lower, <<"s","t","o","r","a","g","e">>, <<"g","b">>, FALSE)
    \/ AmountUnitThenWord(query_lower, <<"i","n","c","h">>, <<"d","i","s","p","l","a","y">>)
    \/ WordAmountUnit(query_lower, <<"d","i","s","p","l","a","y">>, <<"i","n","c","h">>, TRUE)

\* GraphAgent._extract_search_term
ExtractSearchTerm(query) ==
    JoinWords(Take(SelectSeq(SplitWS(Lower(query)),
                             LAMBDA t : t \notin stop_words /\ Len(t) > 2), 4))

\* "Determine success"
DetermineSuccess(results, result_type) ==
    IF result_type \in {"count", "list"} THEN results.kind = "dict"
    ELSE IF result_type = "product_details" THEN results.kind # "None"
    ELSE IF results.kind = "list" THEN Len(results.items) > 0
    ELSE TRUE

GraphResult(thinking, results, result_type) ==
    IF results.raises THEN results
    ELSE Ok([agent |-> "Graph Agent",
             results |-> results.value,
             result_type |-> result_type,
             thinking |-> Append(thinking, "Found results"),
             success |-> DetermineSuccess(results.value, result_type)])

\* a list of names counted, or a list of rows returned
Counted(type, names) ==
    IF names.raises THEN names ELSE Ok(DictResults(type, Len(names.value), names.value))

\* {"count": len(brands), "brands": sorted(brands)}
CountedNames(type, names) ==
    IF names.raises THEN names
    ELSE Ok(DictResults(type, Len(names.value), Sorted(names.value)))

\* {"count": len(products), "products": products[:10]}
CountedProducts(rows) ==
    IF rows.raises THEN rows
    ELSE Ok(DictResults("product_count", Len(rows.value), Take(rows.value, 10)))

Listed(rows) == IF rows.raises THEN rows ELSE Ok(ListResults(rows.value))

\* GraphAgent._handle_counting_query
HandleCountingQuery(query_lower, category, st, fault) ==
    IF Contains(query_lower, <<"b","r","a","n","d">>)
    THEN IF category # NoCategory
         THEN CountedNames("brand_count", get_brands_by_category(fault, category))
         ELSE CountedNames("brand_count", get_all_brands(fault))
    ELSE IF Contains(query_lower, <<"c","a","t","e","g","o","r">>)
    THEN CountedNames("category_count", get_all_categories(fault))
    ELSE IF (Contains(query_lower, <<"p","r","o","d","u","c","t">>) \/ category # NoCategory)
            /\ category # NoCategory
    THEN CountedProducts(get_products(st, fault, NoBrand, category, 100))
    ELSE Ok(NoResults)

\* GraphAgent._handle_spec_query
HandleSpecQuery(query_lower, fault, matching) ==
    IF SpecPatternMatches(query_lower)
    THEN Ok(ListResults(filter_by_spec(fault, matching, 20)))
    ELSE Ok(ListResults(<<>>))

\* CASE 3 to 7, brands being the answer of get_all_brands in _is_brand_query
GraphLookup(query, category, st, fault, thinking, brands) ==
    IF brands.raises THEN brands
    ELSE IF ExtractBrand(brands.value, Lower(query)) # NoBrand
    THEN GraphResult(Append(thinking, "Searching products by brand"),
                     Listed(get_products(st, fault, ExtractBrand(brands.value, Lower(query)),
                                         category, 20)),
                     "products")
    ELSE IF category # NoCategory
    THEN GraphResult(Append(thinking, "Searching products by category"),
                     Listed(get_products(st, fault, NoBrand, category, 20)), "products")
    ELSE IF Contains(Lower(query), <<"a","l","l"," ","b","r","a","n","d","s">>) \/ Contains(Lower(query), <<"b","r","a","n","d","s"," ","a","v","a","i","l","a","b","l","e">>)
    THEN GraphResult(Append(thinking, "Retrieving all available brands"),
                     Counted("brands_list", get_all_brands(fault)), "list")
    ELSE IF Contains(Lower(query), <<"a","l","l"," ","c","a","t","e","g","o","r","i","e","s">>)
            \/ Contains(Lower(query), <<"c","a","t","e","g","o","r","i","e","s"," ","a","v","a","i","l","a","b","l","e">>)
    THEN GraphResult(Append(thinking, "Retrieving all product categories"),
                     Counted("categories_list", get_all_categories(fault)), "list")
    ELSE GraphResult(Append(thinking, "Performing general product search"),
                     Listed(search_products_by_name(st, fault, ExtractSearchTerm(query), 20)),
                     "products")

GraphDispatchSpecFirst(query, st, fault, thinking, matching) ==
    IF IsSpecQuery(Lower(query))
    THEN GraphResult(Append(thinking, "Detected specification filtering query"),
                     HandleSpecQuery(Lower(query), fault, matching), "products")
    ELSE IF IsCountingQuery(Lower(query))
    THEN GraphResult(Append(thinking, "Detected counting query"),
                     HandleCountingQuery(Lower(query), map_category(query), st, fault),
                     "count")
    ELSE GraphLookup(query, map_category(query), st, fault, thinking, get_all_brands(fault))

\* GraphAgent.process from CASE 1 on
GraphDispatch(query, st, fault, thinking, matching) ==
    IF IsCountingQuery(Lower(query))
    THEN GraphResult(Append(thinking, "Detected counting query"),
                     HandleCountingQuery(Lower(query), map_category(query), st, fault),
                     "count")
    ELSE IF IsSpecQuery(Lower(query))
    THEN GraphResult(Append(thinking, "Detected specification filtering query"),
                     HandleSpecQuery(Lower(query), fault, matching), "products")
    ELSE GraphLookup(query, map_category(query), st, fault, thinking, get_all_brands(fault))

\* the product name the patterns of _handle_specification_request may extract
\* and the product details found for it (None when there are none)
HandleSpecificationRequest(st, fault, product_name) ==
    IF product_name = NoName THEN Ok(None)
    ELSE IF search_products_by_name(st, fault, product_name, 3).raises
    THEN search_products_by_name(st, fault, product_name, 3)
    ELSE IF Len(search_products_by_name(st, fault, product_name, 3).value) = 0 THEN Ok(None)
    ELSE get_product_by_id(st, fault,
                           search_products_by_name(st, fault, product_name, 3).value[1].id)

\* CASE 0 of GraphAgent.process, details being the product found
GraphSpecification(query, st, fault, details, matching) ==
    IF details.raises THEN details
    ELSE IF details.value # None
    THEN Ok([agent |-> "Graph Agent",
             results |-> [kind |-> "product", product |-> details.value],
             result_type |-> "product_details",
             thinking |-> <<"Analyzing query for product information needs...",
                            "Detected product specification request",
                            "Found product details with specifications">>,
             success |-> TRUE])
    ELSE GraphDispatch(query, st, fault,
                       <<"Analyzing query for product information needs...",
                         "Detected product specification request",
                         "Could not extract specific product, trying other methods...">>,
                       matching)

\* GraphAgent.process; product_name is what the patterns of CASE 0 extract,
\* matching the rows the store finds for a specification filter
GraphAgentProcess(query, ctx, st, fault, product_name, matching) ==
    IF IsSpecificationRequest(Lower(query))
    THEN GraphSpecification(query, st, fault,
                            HandleSpecificationRequest(st, fault, product_name), matching)
    ELSE GraphDispatch(query, st, fault,
                       <<"Analyzing query for product information needs...">>, matching)

\* the backend failures of one specialist call: which backend threw and
\* where the exception was caught
Fault(backend, caught_in) == [backend |-> backend, caught_in |-> caught_in]

RaisedFaults(r) ==
    IF r.raises /\ r.backend # "none"
    THEN {Fault(r.backend, "Orchestrator.process")} ELSE {}

CompareFaults(ctx, fault, r) ==
    (IF fault = "EntityExtractor" /\ Len(ContextProductIds(ctx)) = 0
     THEN {Fault("EntityExtractor", "extract_product_names_from_query")} ELSE {})
    \cup RaisedFaults(r)

GraphFaults(query, fault, r) ==
    (IF /\ fault = "CatalogStore"
        /\ ~r.raises
        /\ ~IsCountingQuery(Lower(query))
        /\ r.value.result_type = "products"
        /\ IsSpecQuery(Lower(query))
        /\ SpecPatternMatches(Lower(query))
     THEN {Fault("CatalogStore", "filter_by_spec")} ELSE {})
    \cup RaisedFaults(r)

FilterFaults(fault_filter, r) ==
    (IF /\ fault_filter = "CatalogStore"
        /\ ~r.raises
        /\ r.value.constraints.brand # NoBrand
        /\ r.value.constraints.category # NoCategory
     THEN {Fault("CatalogStore", "apply_multiple_filters")} ELSE {})
    \cup RaisedFaults(r)

(***************************************************************************)
(* Orchestrator                                                            *)
(***************************************************************************)

IntentTypes ==
    {"comparison", "counting", "spec_search", "filtered_search", "review_search",
     "complex_search", "general"}

\* the intent dictionary _analyze_intent starts from
BaseIntent ==
    [type |-> "general", needs_filtering |-> FALSE, needs_reviews |-> FALSE,
     needs_comparison |-> FALSE, is_counting |-> FALSE, is_spec_query |-> FALSE]

PriceIntentTagOnly(intent0, query_lower) ==
    IF AnyIn(price_keywords, query_lower)
    THEN [intent0 EXCEPT !.type = "filtered_search"]
    ELSE intent0

\* "if any(word in query_lower for word in price_keywords)"
PriceIntent(intent0, query_lower) ==
    IF AnyIn(price_keywords, query_lower)
    THEN [intent0 EXCEPT !.needs_filtering = TRUE, !.type = "filtered_search"]
    ELSE intent0

ReviewIntentNoUpgrade(intent1, query_lower) ==
    IF AnyIn(review_keywords, query_lower)
    THEN [intent1 EXCEPT !.needs_reviews = TRUE, !.type = "review_search"]
    ELSE intent1

\* "if any(word in query_lower for word in review_keywords)"
ReviewIntent(intent1, query_lower) ==
    IF AnyIn(review_keywords, query_lower)
    THEN [intent1 EXCEPT !.needs_reviews = TRUE,
                         !.type = IF intent1.type = "filtered_search"
                                  THEN "complex_search" ELSE "review_search"]
    ELSE intent1

AnalyzeIntentPriceFirst(query) ==
    IF query = NoneValue THEN RaiseOwn("AttributeError: lower")
    ELSE IF AnyIn(price_keywords, Lower(query))
    THEN Ok(ReviewIntent(PriceIntent(BaseIntent, Lower(query)), Lower(query)))
    ELSE IF AnyIn(comparison_keywords, Lower(query))
    THEN Ok([BaseIntent EXCEPT !.needs_comparison = TRUE, !.type = "comparison"])
    ELSE Ok(ReviewIntent(BaseIntent, Lower(query)))

\* Orchestrator._analyze_intent; a query that is no string has no lower()
AnalyzeIntent(query) ==
    IF query = NoneValue THEN RaiseOwn("AttributeError: lower")
    ELSE IF AnyIn(comparison_keywords, Lower(query))
    THEN Ok([BaseIntent EXCEPT !.needs_comparison = TRUE, !.type = "comparison"])
    ELSE IF AnyIn(counting_keywords, Lower(query))
    THEN Ok([BaseIntent EXCEPT !.is_counting = TRUE, !.type = "counting"])
    ELSE IF AnyIn(spec_keywords, Lower(query)) /\ AnyIn(spec_operators, Lower(query))
    THEN Ok([BaseIntent EXCEPT !.is_spec_query = TRUE, !.type = "spec_search"])
    ELSE Ok(ReviewIntent(PriceIntent(BaseIntent, Lower(query)), Lower(query)))

IntentStep(type) ==
    CASE type = "comparison" -> "Detected intent: comparison"
      [] type = "counting" -> "Detected intent: counting"
      [] type = "spec_search" -> "Detected intent: spec_search"
      [] type = "filtered_search" -> "Detected intent: filtered_search"
      [] type = "review_search" -> "Detected intent: review_search"
      [] type = "complex_search" -> "Detected intent: complex_search"
      [] type = "general" -> "Detected intent: general"

ApologyAnswer == "I encountered an error processing your request. ..."
FallbackAnswer == "I couldn't find any products matching your criteria. ..."

NewTrace == [steps |-> <<>>, agents_used |-> <<>>, final_answer |-> "", success |-> FALSE]

HandleExceptionFreshSteps(trace) ==
    [trace EXCEPT !.steps = <<"Error">>,
                  !.final_answer = ApologyAnswer,
                  !.success = FALSE]

HandleExceptionSuccess(trace) ==
    [trace EXCEPT !.steps = Append(@, "Error"),
                  !.final_answer = ApologyAnswer,
                  !.success = TRUE]

\* the except clause of Orchestrator.process
HandleException(trace) ==
    [trace EXCEPT !.steps = Append(@, "Error"),
                  !.final_answer = ApologyAnswer,
                  !.success = FALSE]

ReturnedUnlisted(trace, name, result) ==
    [trace EXCEPT !.steps = @ \o result.thinking]

\* after a specialist returned: agents_used.append(name); steps.extend(thinking)
Returned(trace, name, result) ==
    [trace EXCEPT !.agents_used = Append(@, name), !.steps = @ \o result.thinking]

SynthesizeAnswerFilterFirst(results) ==
    IF results.compare # None /\ results.compare.success THEN "Compare Agent"
    ELSE IF results.filter # None /\ results.filter.success THEN "Filter Agent"
    ELSE IF results.review # None /\ results.review.success THEN "Review Agent"
    ELSE IF results.graph # None /\ results.graph.success THEN "Graph Agent"
    ELSE "fallback"

\* the answer _synthesize_answer returns: the specialist whose
\* format_response builds it, or the fallback text
SynthesizeAnswer(results) ==
    IF results.compare # None /\ results.compare.success THEN "Compare Agent"
    ELSE IF results.review # None /\ results.review.success THEN "Review Agent"
    ELSE IF results.filter # None /\ results.filter.success THEN "Filter Agent"
    ELSE IF results.graph # None /\ results.graph.success THEN "Graph Agent"
    ELSE "fallback"

FormattedAnswer(agent) ==
    CASE agent = "Compare Agent" -> "compare_agent.format_response(...)"
      [] agent = "Review Agent" -> "review_agent.format_response(...)"
      [] agent = "Filter Agent" -> "filter_agent.format_response(...)"
      [] agent = "Graph Agent" -> "graph_agent.format_response(...)"
      [] agent = "fallback" -> FallbackAnswer

SeedContextAlways(ctx, filter_result) ==
    [keys |-> ctx.keys \cup {"product_ids"},
     product_ids |-> [i \in 1..Len(filter_result.results) |-> filter_result.results[i].id]]

\* context["product_ids"] = [p["id"] for p in filter_result["results"]]
SeedContext(ctx, filter_result) ==
    IF filter_result.success
    THEN [keys |-> ctx.keys \cup {"product_ids"},
          product_ids |-> [i \in 1..Len(filter_result.results) |->
                              filter_result.results[i].id]]
    ELSE ctx

\* process(user_query): the trace is created, the try block entered
Start ==
    /\ pc = "idle"
    /\ \E q \in Queries \cup {NoneValue} : user_query' = q
    /\ execution_trace' = NewTrace
    /\ pc' = "analyze"
    /\ UNCHANGED <<intent, context, agent_results, store, calls, faults, raised,
                   review_context, agent_vars, tool_vars>>

\* Step 1: analyze the intent; context = {}
Analyze ==
    /\ pc = "analyze"
    /\ LET trace1 == [execution_trace EXCEPT
                         !.steps = Append(@, "Orchestrator: Analyzing query intent...")]
           r == AnalyzeIntent(user_query)
       IN IF r.raises
          THEN /\ execution_trace' = HandleException(trace1)
               /\ raised' = TRUE
               /\ pc' = "done"
               /\ UNCHANGED <<intent, context>>
          ELSE /\ execution_trace' = [trace1 EXCEPT !.steps = Append(@, IntentStep(r.value.type))]
               /\ intent' = r.value
               /\ context' = EmptyContext
               /\ pc' = "route"
               /\ UNCHANGED raised
    /\ UNCHANGED <<user_query, agent_results, store, calls, faults, review_context,
                   agent_vars, tool_vars>>

\* one specialist call of _route_query: the routing step, the call, and
\* either the bookkeeping after its return or the except clause of process
CallSpecialist(step, name, slot, r, new_faults, new_context, next_pc) ==
    LET trace1 == [execution_trace EXCEPT !.steps = Append(@, step)]
    IN /\ faults' = faults \cup new_faults
       /\ IF r.raises
          THEN /\ calls' = Append(calls, <<"call", name>>)
               /\ execution_trace' = HandleException(trace1)
               /\ raised' = TRUE
               /\ pc' = "done"
               /\ UNCHANGED <<agent_results, context>>
          ELSE /\ calls' = calls \o << <<"call", name>>, <<"return", name>> >>
               /\ execution_trace' = Returned(trace1, name, r.value)
               /\ agent_results' = [agent_results EXCEPT ![slot] = r.value]
               /\ context' = new_context
               /\ pc' = next_pc
               /\ UNCHANGED raised
       /\ UNCHANGED <<user_query, intent, store, agent_vars, tool_vars>>

\* ROUTE 1: comparison
RouteCompare ==
    /\ pc = "route"
    /\ intent.type = "comparison"
    /\ \E content \in LLMContents, fault \in Faults :
        LET r == CompareAgentProcess(user_query, context, content, store, fault)
        IN CallSpecialist("Orchestrator: Routing to Compare Agent...", "Compare Agent",
                          "compare", r, CompareFaults(context, fault, r), context,
                          "synthesize")
    /\ UNCHANGED review_context

GraphStep(type) ==
    CASE type = "counting" -> "Orchestrator: Routing to Graph Agent (counting)..."
      [] type = "spec_search" -> "Orchestrator: Routing to Graph Agent (specs)..."
      [] OTHER -> "Orchestrator: Routing to Graph Agent..."

\* ROUTE 2, 3 and 7: counting, spec_search and the else branch
RouteGraph ==
    /\ pc = "route"
    /\ intent.type \notin {"comparison", "review_search", "complex_search", "filtered_search"}
    /\ \E fault \in Faults,
          product_name \in IF IsSpecificationRequest(Lower(user_query))
                           THEN ExtractedNames ELSE {NoName},
          hits \in IF SpecPatternMatches(Lower(user_query)) THEN HitLists ELSE {<<>>} :
        LET r == GraphAgentProcess(user_query, context, store, fault, product_name,
                                   RowsOf(store, hits))
        IN CallSpecialist(GraphStep(intent.type), "Graph Agent", "graph", r,
                          GraphFaults(user_query, fault, r), context, "synthesize")
    /\ UNCHANGED review_context

\* ROUTE 4: review_search
RouteReview ==
    /\ pc = "route"
    /\ intent.type = "review_search"
    /\ \E fault \in Faults,
          product_name \in IF AnyIn(name_keywords, Lower(user_query))
                           THEN ExtractedNames ELSE {NoName},
          hits \in HitLists :
        LET r == ReviewAgentProcess(user_query, context, store, fault, product_name, hits)
        IN CallSpecialist("Orchestrator: Routing to Review Agent...", "Review Agent",
                          "review", r, RaisedFaults(r), context, "synthesize")
    /\ review_context' = context

\* ROUTE 5, first half: the Filter Agent, then the context is seeded
RouteComplexFilter ==
    /\ pc = "route"
    /\ intent.type = "complex_search"
    /\ IF intent.needs_filtering
       THEN \E fault_brands \in CatalogFaults, fault_filter \in CatalogFaults :
               LET r == FilterAgentProcess(user_query, context, store, fault_brands,
                                           fault_filter)
               IN CallSpecialist("Orchestrator: Routing to Filter Agent...", "Filter Agent",
                                 "filter", r, FilterFaults(fault_filter, r),
                                 IF r.raises THEN context ELSE SeedContext(context, r.value),
                                 "route_review")
       ELSE /\ pc' = "route_review"
            /\ UNCHANGED <<user_query, execution_trace, intent, context, agent_results,
                           store, calls, faults, raised, agent_vars, tool_vars>>
    /\ UNCHANGED review_context

\* ROUTE 5, second half: the Review Agent
RouteComplexReview ==
    /\ pc = "route_review"
    /\ IF intent.needs_reviews
       THEN /\ \E fault \in Faults,
                   product_name \in IF AnyIn(name_keywords, Lower(user_query))
                                    THEN ExtractedNames ELSE {NoName},
                   hits \in HitLists :
                 LET r == ReviewAgentProcess(user_query, context, store, fault,
                                             product_name, hits)
                 IN CallSpecialist("Orchestrator: Routing to Review Agent...",
                                   "Review Agent", "review", r, RaisedFaults(r), context,
                                   "synthesize")
            /\ review_context' = context
       ELSE /\ pc' = "synthesize"
            /\ UNCHANGED <<user_query, execution_trace, intent, context, agent_results,
                           store, calls, faults, raised, review_context, agent_vars,
                           tool_vars>>

\* ROUTE 6: filtered_search
RouteFilter ==
    /\ pc = "route"
    /\ intent.type = "filtered_search"
    /\ \E fault_brands \in CatalogFaults, fault_filter \in CatalogFaults :
        LET r == FilterAgentProcess(user_query, context, store, fault_brands, fault_filter)
        IN CallSpecialist("Orchestrator: Routing to Filter Agent...", "Filter Agent",
                          "filter", r, FilterFaults(fault_filter, r), context, "synthesize")
    /\ UNCHANGED review_context

\* Step 3: synthesize the final answer; a format_response may raise
Synthesize ==
    /\ pc = "synthesize"
    /\ LET trace1 == [execution_trace EXCEPT
                         !.steps = Append(@, "Orchestrator: Synthesizing final answer...")]
           agent == SynthesizeAnswer(agent_results)
       IN \E format_raises \in BOOLEAN :
            IF format_raises /\ agent # "fallback"
            THEN /\ execution_trace' = HandleException(trace1)
                 /\ raised' = TRUE
            ELSE /\ execution_trace' = [trace1 EXCEPT !.final_answer = FormattedAnswer(agent),
                                                      !.success = TRUE]
                 /\ UNCHANGED raised
    /\ pc' = "done"
    /\ UNCHANGED <<user_query, intent, context, agent_results, store, calls, faults,
                   review_context, agent_vars, tool_vars>>

\* return execution_trace; the caller consumes it and nothing of the query remains
Return ==
    /\ pc = "done"
    /\ pc' = "idle"
    /\ user_query' = <<>>
    /\ execution_trace' = NewTrace
    /\ intent' = None
    /\ context' = EmptyContext
    /\ agent_results' = [graph |-> None, review |-> None, filter |-> None, compare |-> None]
    /\ calls' = <<>>
    /\ faults' = {}
    /\ raised' = FALSE
    /\ review_context' = None
    /\ UNCHANGED <<store, agent_vars, tool_vars>>

Init == OrchestratorIdle /\ AgentIdle /\ ToolIdle /\ store \in AgentStores

Next ==
    \/ Start
    \/ Analyze
    \/ RouteCompare
    \/ RouteGraph
    \/ RouteReview
    \/ RouteComplexFilter
    \/ RouteComplexReview
    \/ RouteFilter
    \/ Synthesize
    \/ Return

Spec == Init /\ [][Next]_vars

(***************************************************************************)
(* Specification SpecFilter: FilterAgent.process called on its own with a  *)
(* query of one to MaxPhrases phrases, a context with or without brand or  *)
(* category, any store of FilterStores and the catalog up or down, and     *)
(* called again with the same arguments.                                   *)
(***************************************************************************)

MaxPhrases == 2

\* the phrases of the queries: the text, the price rule it is written for
\* and its amounts
FilterPhrases ==
    { [text |-> <<"u","n","d","e","r"," ","1","5","0">>, rule |-> "under", a |-> 150, b |-> 0]
    , [text |-> <<"m","a","x"," ","rupee","1",",","0","0","0">>, rule |-> "under", a |-> 1000, b |-> 0]
    , [text |-> <<"a","b","o","v","e"," ","1","5","0">>, rule |-> "above", a |-> 150, b |-> 0]
    , [text |-> <<"m","o","r","e"," ","t","h","a","n"," ","1",",","0","0","0">>, rule |-> "above", a |-> 1000, b |-> 0]
    , [text |-> <<"b","e","t","w","e","e","n"," ","1","0","0"," ","a","n","d"," ","2","0","0">>, rule |-> "between", a |-> 100, b |-> 200]
    , [text |-> <<"b","e","t","w","e","e","n"," ","rupee","1","5","0"," ","t","o"," ","1",",","0","0","0">>, rule |-> "between", a |-> 150, b |-> 1000]
    , [text |-> <<"a","r","o","u","n","d"," ","2","5","0">>, rule |-> "around", a |-> 250, b |-> 0]
    , [text |-> <<"s","a","m","s","u","n","g">>, rule |-> "none", a |-> 0, b |-> 0]
    , [text |-> <<"P","h","o","n","e","s">>, rule |-> "none", a |-> 0, b |-> 0] }

FilterPhraseLists == UNION { [1..n -> FilterPhrases] : n \in 1..MaxPhrases }

PhraseTexts(phrases) == [i \in 1..Len(phrases) |-> phrases[i].text]

FilterContexts ==
    { EmptyContext,
      [keys |-> {"brand"}, product_ids |-> <<>>, brand |-> brand_Samsung],
      [keys |-> {"category"}, product_ids |-> <<>>, category |-> "Smartphones"] }

\* a catalog of 22 products at four prices
LargeStore ==
    [price |-> [p \in { (ScanOrder \o MoreProducts)[i] : i \in 1..22 } |->
                   100 + 50 * ((CHOOSE i \in 1..22 : (ScanOrder \o MoreProducts)[i] = p) % 4)],
     reviews |-> [p \in { (ScanOrder \o MoreProducts)[i] : i \in 1..22 } |-> <<>>]]

\* a store with equal prices, a store whose scan order is not its price
\* order, and the large store
FilterStores ==
    { [price |-> [p \in ProductIds |-> 100], reviews |-> [p \in ProductIds |-> <<>>]],
      [price |-> [p \in ProductIds |-> IF p = "p3" THEN 100 ELSE 200],
       reviews |-> [p \in ProductIds |-> <<>>]],
      LargeStore }

FilterContextAfterKeepsBrand(ctx, result) ==
    IF ~result.raises /\ Len(result.value.results) > 0
    THEN [keys |-> ctx.keys \cup {"brand"}, product_ids |-> ctx.product_ids,
          brand |-> result.value.results[1].brand]
    ELSE ctx

\* the context after FilterAgent.process: _extract_constraints reads it with
\* context.get, and nothing writes it
FilterContextAfter(ctx, result) == ctx

\* the record of a call and of the call repeated
FilterCall(phrases, query, ctx, st, fault_brands, fault_filter, result) ==
    [op |-> "FilterAgent.process", phrases |-> phrases, query |-> query, context |-> ctx,
     fault_brands |-> fault_brands, fault_filter |-> fault_filter,
     result |-> result,
     context_after |-> FilterContextAfter(ctx, result),
     again |-> FilterAgentProcess(query, FilterContextAfter(ctx, result), st,
                                  fault_brands, fault_filter)]

\* the backend is up, or down for get_all_brands, or down for the filter tool
FilterOutages ==
    { [brands |-> "none", filter |-> "none"],
      [brands |-> "CatalogStore", filter |-> "none"],
      [brands |-> "none", filter |-> "CatalogStore"] }

FilterProcess ==
    /\ direct_call = None
    /\ \E phrases \in FilterPhraseLists, ctx \in FilterContexts, fault \in FilterOutages :
        direct_call' = FilterCall(phrases, JoinWords(PhraseTexts(phrases)), ctx, store,
                                  fault.brands, fault.filter,
                                  FilterAgentProcess(JoinWords(PhraseTexts(phrases)), ctx,
                                                     store, fault.brands, fault.filter))
    /\ UNCHANGED <<store, orch_vars, agent_vars, tool_ids, tool_result, service_vars>>

InitFilter == OrchestratorIdle /\ AgentIdle /\ ToolIdle /\ store \in FilterStores

NextFilter == FilterProcess

SpecFilter == InitFilter /\ [][NextFilter]_vars

(***************************************************************************)
(* FilterTools.apply_multiple_filters called with spec_filters              *)
(***************************************************************************)

\* a spec filter {"name", "operator", "value"}; satisfying are the products
\* for which the store finds its condition true
SpecFilterRam ==
    [name |-> "RAM", operator |-> ">", value |-> "8GB", satisfying |-> {"p1", "p3"}]

SpecFilterDisplay ==
    [name |-> "Display", operator |-> "contains", value |-> "OLED",
     satisfying |-> {"p2", "p3", "p4"}]

\* spec_filters is None or a list
NoSpecFilters == [given |-> FALSE, list |-> <<>>]
SpecFilterList(list) == [given |-> TRUE, list |-> list]

\* spec_filters: None, the empty list, one filter, two filters
SpecFilterLists ==
    { NoSpecFilters, SpecFilterList(<<>>), SpecFilterList(<<SpecFilterRam>>),
      SpecFilterList(<<SpecFilterRam, SpecFilterDisplay>>) }

\* "if spec_filters:"
HasSpecFilters(spec_filters) == spec_filters.given /\ Len(spec_filters.list) > 0

\* MATCH ... WHERE ' AND '.join(conditions) ... ORDER BY p.price ASC LIMIT $limit
MultiFilterQuery(st, brand, category, min_price, max_price, spec_filters, limit) ==
    Take(OrderByPrice(SelectSeq(CatalogRows(st),
            LAMBDA row : /\ brand # NoBrand => row.brand = brand
                         /\ category # NoCategory => row.category = category
                         /\ PriceWithin(row, min_price, max_price)
                         /\ HasSpecFilters(spec_filters) =>
                                \A i \in 1..Len(spec_filters.list) :
                                    row.id \in spec_filters.list[i].satisfying)),
         limit)

RetryFiltersKept(spec_filters) == spec_filters

\* "self.apply_multiple_filters(brand, category, min_price, max_price, None, limit)"
RetryFilters(spec_filters) == NoSpecFilters

\* the outcome of the next session.run and of those after it
NextOutcome(outcomes) == IF Len(outcomes) = 0 THEN "none" ELSE Head(outcomes)
LaterOutcomes(outcomes) == IF Len(outcomes) = 0 THEN <<>> ELSE Tail(outcomes)

\* FilterTools.apply_multiple_filters with all its parameters; outcomes
\* are the outcomes of the store queries in the order they are run. The
\* value is what the call returns, queries the store queries it ran.
RECURSIVE apply_multiple_filters_specs(_, _, _, _, _, _, _, _)
apply_multiple_filters_specs(st, outcomes, brand, category, min_price, max_price, spec_filters, limit) ==
    LET query == [brand |-> brand, category |-> category, min_price |-> min_price,
                  max_price |-> max_price, spec_filters |-> spec_filters, limit |-> limit]
    IN IF NextOutcome(outcomes) = "CatalogStore"
       THEN IF HasSpecFilters(spec_filters)
            THEN LET retry == apply_multiple_filters_specs(
                                  st, LaterOutcomes(outcomes), brand, category, min_price,
                                  max_price, RetryFilters(spec_filters), limit)
                 IN [result |-> retry.result, queries |-> <<query>> \o retry.queries]
            ELSE [result |-> Ok(<<>>), queries |-> <<query>>]
       ELSE [result |-> Ok(MultiFilterQuery(st, brand, category, min_price, max_price,
                                            spec_filters, limit)),
             queries |-> <<query>>]

\* the outcomes of up to three store queries
QueryOutcomes == [1..3 -> CatalogFaults]

MultiFilterCall(st, outcomes, brand, category, min_price, max_price, spec_filters, limit, r) ==
    [agent |-> "apply_multiple_filters", store |-> st, outcomes |-> outcomes,
     brand |-> brand, category |-> category, min_price |-> min_price,
     max_price |-> max_price, spec_filters |-> spec_filters, limit |-> limit,
     result |-> r.result, queries |-> r.queries]

ApplyMultipleFilters ==
    /\ direct_call = None
    /\ \E outcomes \in QueryOutcomes, brand \in {NoBrand, brand_Apple},
          category \in {NoCategory, "Smartphones"},
          max_price \in {Frac(Infinity, 1), Frac(150, 1)},
          spec_filters \in SpecFilterLists, limit \in {20, 1} :
        direct_call' = MultiFilterCall(store, outcomes, brand, category, Frac(0, 1),
                                       max_price, spec_filters, limit,
                                       apply_multiple_filters_specs(
                                           store, outcomes, brand, category, Frac(0, 1),
                                           max_price, spec_filters, limit))
    /\ UNCHANGED <<store, orch_vars, agent_vars, tool_ids, tool_result, service_vars>>

NextMultiFilter == ApplyMultipleFilters

SpecMultiFilter == InitFilter /\ [][NextMultiFilter]_vars

(***************************************************************************)
(* GraphAgent.process called on its own                                    *)
(***************************************************************************)

\* phrases of a catalog question and the tests of GraphAgent.process each
\* one passes
GraphPhrases ==
    { [text |-> <<"s","p","e","c","s">>, tags |-> {"specification"}]
    , [text |-> <<"H","o","w"," ","m","a","n","y">>, tags |-> {"counting"}]
    , [text |-> <<"r","a","m"," ","a","b","o","v","e"," ","8","g","b">>,
       tags |-> {"spec_keyword", "spec_operator"}]
    , [text |-> <<"S","a","m","s","u","n","g">>, tags |-> {"brand"}]
    , [text |-> <<"p","h","o","n","e","s">>, tags |-> {"category"}]
    , [text |-> <<"a","l","l"," ","b","r","a","n","d","s">>, tags |-> {"all brands", "brand word"}]
    , [text |-> <<"a","l","l"," ","c","a","t","e","g","o","r","i","e","s">>,
       tags |-> {"all categories", "categor word"}]
    , [text |-> <<"p","r","o","d","u","c","t","s">>, tags |-> {"product word"}]
    , [text |-> <<"p","h","o","n","e"," ","b","r","a","n","d","s">>,
       tags |-> {"category", "brand word"}]
    , [text |-> <<"g","a","l","a","x","y">>, tags |-> {}] }

GraphPhraseLists == UNION { [1..n -> GraphPhrases] : n \in 1..MaxPhrases }

GraphCall(phrases, query, st, fault, product_name, matching) ==
    [op |-> "GraphAgent.process", phrases |-> phrases, query |-> query, fault |-> fault,
     product_name |-> product_name, matching |-> matching,
     result |-> GraphAgentProcess(query, EmptyContext, st, fault, product_name, matching)]

GraphProcess ==
    /\ direct_call = None
    /\ \E phrases \in GraphPhraseLists, fault \in CatalogFaults,
          product_name \in ExtractedNames, matching \in HitLists :
        direct_call' = GraphCall(phrases, JoinWords(PhraseTexts(phrases)), store, fault,
                                 product_name, matching)
    /\ UNCHANGED <<store, orch_vars, agent_vars, tool_ids, tool_result, service_vars>>

NextGraph == GraphProcess

SpecGraph == InitFilter /\ [][NextGraph]_vars

(***************************************************************************)
(* ReviewAgent.process called on its own                                   *)
(***************************************************************************)

MaxReviewed == 4

\* a review question without and with a keyword that starts the search for
\* a product name
ReviewQueries ==
    { [text |-> <<"r","e","v","i","e","w","s">>, names |-> FALSE]
    , [text |-> <<"R","e","v","i","e","w","s"," ","o","f"," ","i","P","h","o","n","e"," ","1","5">>,
       names |-> TRUE]
    , [text |-> <<"b","a","t","t","e","r","y"," ","l","i","f","e">>, names |-> FALSE] }

\* the product ids of the hits of search_reviews_semantic, most relevant first
ReviewHits ==
    { <<>>, <<"p2">>, <<"p3", "p1", "p3">>,
      <<"p3", "p2", "p3", "p1", "p0", "p4", "p5", "p2">> }

Range(seq) == { seq[i] : i \in 1..Len(seq) }

\* list(set(ids)): the distinct ids in the order of the set's iteration,
\* which for strings depends on the hash seed of the process: any order
RECURSIVE Orderings(_)
Orderings(ids) ==
    IF ids = {} THEN {<<>>}
    ELSE UNION { { <<id>> \o rest : rest \in Orderings(ids \ {id}) } : id \in ids }

ListOfSet(ids) == Orderings(Range(ids))

\* stores with products of three reviews, of fewer and of none
ReviewStores ==
    { [price |-> [p \in ProductIds |-> 100],
       reviews |-> [p \in ProductIds |->
                      IF p = "p1" THEN <<4, 5, 3>> ELSE IF p = "p2" THEN <<>> ELSE <<5>>]],
      [price |-> [p \in ProductIds |-> 100],
       reviews |-> [p \in ProductIds |->
                      IF p = "p1" THEN <<>> ELSE IF p = "p2" THEN <<3, 5>> ELSE <<4, 2, 5>>]],
      [price |-> [p \in ProductIds |-> 100], reviews |-> [p \in ProductIds |-> <<>>]] }

ReviewContexts ==
    {EmptyContext} \cup
    { [keys |-> {"product_ids"}, product_ids |-> ids] : ids \in IdLists(MaxReviewed) }

\* the name the patterns extract and the hits of a search matter only to a
\* call whose context holds no product ids
ReviewInputs(ctx) ==
    IF Len(ContextProductIds(ctx)) > 0
    THEN {[product_name |-> NoName, review_results |-> <<>>, hits |-> <<>>]}
    ELSE UNION { [product_name : ExtractedNames, review_results : {review_results},
                  hits : ListOfSet(review_results)] : review_results \in ReviewHits }

ReviewCall(asked, ctx, st, fault, input) ==
    [op |-> "ReviewAgent.process", asked |-> asked, context |-> ctx, fault |-> fault,
     product_name |-> input.product_name, review_results |-> input.review_results,
     hits |-> input.hits,
     result |-> ReviewAgentProcess(asked.text, ctx, st, fault, input.product_name, input.hits)]

ReviewProcess ==
    /\ direct_call = None
    /\ \E asked \in ReviewQueries, ctx \in ReviewContexts, fault \in Faults :
        \E input \in ReviewInputs(ctx) :
            direct_call' = ReviewCall(asked, ctx, store, fault, input)
    /\ UNCHANGED <<store, orch_vars, agent_vars, tool_ids, tool_result, service_vars>>

InitReview == OrchestratorIdle /\ AgentIdle /\ ToolIdle /\ store \in ReviewStores

NextReview == ReviewProcess

SpecReview == InitReview /\ [][NextReview]_vars

(***************************************************************************)
(* Specification SpecConcurrent: the user sessions call process of the     *)
(* one Orchestrator of get_orchestrator at the same time; the steps of the *)
(* calls interleave. execution_trace, intent, context and agent_results    *)
(* are locals of process, one set per call.                                *)
(***************************************************************************)

\* a complex search whose filter succeeds, a comparison, a review search
\* and a complex search whose filter finds nothing
ConcurrentQueries ==
    { JoinWords(<<<<"c","h","e","a","p">>, <<"b","e","s","t">>>>),
      JoinWords(<<<<"C","o","m","p","a","r","e">>, <<"p","h","o","n","e","s">>>>),
      <<"b","e","s","t">>,
      JoinWords(<<<<"c","h","e","a","p">>, <<"c","a","m","e","r","a">>>>) }

SessionContextShared(all, s) == all[1].context

\* the context a call of process hands to a specialist: its local
SessionContext(all, s) == all[s].context

\* Step 1 of process
SessionAnalyzed(se, r) ==
    IF r.raises
    THEN [se EXCEPT !.execution_trace =
                        HandleException([@ EXCEPT !.steps =
                            Append(@, "Orchestrator: Analyzing query intent...")]),
                    !.pc = "done"]
    ELSE [se EXCEPT !.execution_trace.steps =
                        @ \o <<"Orchestrator: Analyzing query intent...",
                               IntentStep(r.value.type)>>,
                    !.intent = r.value,
                    !.context = EmptyContext,
                    !.pc = "route"]

\* one specialist call of _route_query in a session; ctx is the context
\* handed over and seeded whether some other session's context holds
\* product ids at that moment
SessionCalled(se, step, name, slot, ctx, seeded, r, new_context, next_pc) ==
    IF r.raises
    THEN [se EXCEPT !.execution_trace =
                        HandleException([@ EXCEPT !.steps = Append(@, step)]),
                    !.handed = Append(@, [agent |-> name, context |-> ctx,
                                          while_seeded |-> seeded]),
                    !.pc = "done"]
    ELSE [se EXCEPT !.execution_trace =
                        Returned([@ EXCEPT !.steps = Append(@, step)], name, r.value),
                    !.agent_results[slot] = r.value,
                    !.context = new_context,
                    !.handed = Append(@, [agent |-> name, context |-> ctx,
                                          while_seeded |-> seeded]),
                    !.pc = next_pc]

SeededElsewhere(all, s) ==
    \E t \in SessionIds \ {s} : Len(ContextProductIds(all[t].context)) > 0

\* ROUTE 5, first half: the Filter Agent, then the context is seeded
SessionFiltered(all, s, r) ==
    SessionCalled(all[s], "Orchestrator: Routing to Filter Agent...", "Filter Agent",
                  "filter", SessionContext(all, s), SeededElsewhere(all, s), r,
                  IF r.raises THEN all[s].context ELSE SeedContext(all[s].context, r.value),
                  "route_review")

\* answers of the language model to the comparison query
ConcurrentContents ==
    { <<"i","P","h","o","n","e"," ","1","5","\n","G","a","l","a","x","y"," ","S","2","4">> }

\* the first specialist call of _route_query
SessionRouted(all, s, content, fault, hits) ==
    CASE all[s].intent.type = "comparison" ->
            SessionCalled(all[s], "Orchestrator: Routing to Compare Agent...",
                          "Compare Agent", "compare", SessionContext(all, s),
                          SeededElsewhere(all, s),
                          CompareAgentProcess(all[s].user_query, SessionContext(all, s),
                                              content, store, fault),
                          all[s].context, "synthesize")
      [] all[s].intent.type = "review_search" ->
            SessionCalled(all[s], "Orchestrator: Routing to Review Agent...",
                          "Review Agent", "review", SessionContext(all, s),
                          SeededElsewhere(all, s),
                          ReviewAgentProcess(all[s].user_query, SessionContext(all, s),
                                             store, fault, NoName, hits),
                          all[s].context, "synthesize")
      [] all[s].intent.type = "filtered_search" ->
            SessionCalled(all[s], "Orchestrator: Routing to Filter Agent...",
                          "Filter Agent", "filter", SessionContext(all, s),
                          SeededElsewhere(all, s),
                          FilterAgentProcess(all[s].user_query, SessionContext(all, s),
                                             store, fault, fault),
                          all[s].context, "synthesize")
      [] all[s].intent.type = "complex_search" /\ all[s].intent.needs_filtering ->
            SessionFiltered(all, s, FilterAgentProcess(all[s].user_query,
                                                       SessionContext(all, s),
                                                       store, fault, fault))
      [] all[s].intent.type = "complex_search" /\ ~all[s].intent.needs_filtering ->
            [all[s] EXCEPT !.pc = "route_review"]
      [] OTHER ->
            SessionCalled(all[s], GraphStep(all[s].intent.type), "Graph Agent", "graph",
                          SessionContext(all, s), SeededElsewhere(all, s),
                          GraphAgentProcess(all[s].user_query, SessionContext(all, s),
                                            store, fault, NoName, RowsOf(store, hits)),
                          all[s].context, "synthesize")

\* ROUTE 5, second half
SessionReviewed(all, s, fault, hits) ==
    IF all[s].intent.needs_reviews
    THEN SessionCalled(all[s], "Orchestrator: Routing to Review Agent...",
                       "Review Agent", "review", SessionContext(all, s),
                       SeededElsewhere(all, s),
                       ReviewAgentProcess(all[s].user_query, SessionContext(all, s),
                                          store, fault, NoName, hits),
                       all[s].context, "synthesize")
    ELSE [all[s] EXCEPT !.pc = "synthesize"]

\* Step 3 of process
SessionSynthesized(se, format_raises) ==
    IF format_raises /\ SynthesizeAnswer(se.agent_results) # "fallback"
    THEN [se EXCEPT !.execution_trace =
                        HandleException([@ EXCEPT !.steps =
                            Append(@, "Orchestrator: Synthesizing final answer...")]),
                    !.pc = "done"]
    ELSE [se EXCEPT !.execution_trace =
                        [@ EXCEPT !.steps =
                                      Append(@, "Orchestrator: Synthesizing final answer..."),
                                  !.final_answer =
                                      FormattedAnswer(SynthesizeAnswer(se.agent_results)),
                                  !.success = TRUE],
                    !.pc = "done"]

SessionStart(s) ==
    /\ sessions[s].pc = "idle"
    /\ \E q \in ConcurrentQueries :
        sessions' = [sessions EXCEPT ![s] = [SessionIdle EXCEPT !.user_query = q,
                                                                !.pc = "analyze"]]
    /\ UNCHANGED <<store, orch_vars, agent_vars, tool_ids, tool_result, direct_call,
                   storage, memory>>

SessionAnalyze(s) ==
    /\ sessions[s].pc = "analyze"
    /\ \E r \in {AnalyzeIntent(sessions[s].user_query)} :
        sessions' = [sessions EXCEPT ![s] = SessionAnalyzed(sessions[s], r)]
    /\ UNCHANGED <<store, orch_vars, agent_vars, tool_ids, tool_result, direct_call,
                   storage, memory>>

SessionRoute(s) ==
    /\ sessions[s].pc = "route"
    /\ \E content \in ConcurrentContents, fault \in CatalogFaults, hits \in HitLists :
        sessions' = [sessions EXCEPT ![s] = SessionRouted(sessions, s, content, fault, hits)]
    /\ UNCHANGED <<store, orch_vars, agent_vars, tool_ids, tool_result, direct_call,
                   storage, memory>>

SessionRouteReview(s) ==
    /\ sessions[s].pc = "route_review"
    /\ \E fault \in CatalogFaults, hits \in HitLists :
        sessions' = [sessions EXCEPT ![s] = SessionReviewed(sessions, s, fault, hits)]
    /\ UNCHANGED <<store, orch_vars, agent_vars, tool_ids, tool_result, direct_call,
                   storage, memory>>

SessionSynthesize(s) ==
    /\ sessions[s].pc = "synthesize"
    /\ \E format_raises \in BOOLEAN :
        sessions' = [sessions EXCEPT ![s] = SessionSynthesized(sessions[s], format_raises)]
    /\ UNCHANGED <<store, orch_vars, agent_vars, tool_ids, tool_result, direct_call,
                   storage, memory>>

\* return execution_trace: the locals of the call are gone
SessionReturn(s) ==
    /\ sessions[s].pc = "done"
    /\ sessions' = [sessions EXCEPT ![s] = SessionIdle]
    /\ UNCHANGED <<store, orch_vars, agent_vars, tool_ids, tool_result, direct_call,
                   storage, memory>>

\* the steps of one call of process
SessionStep(s) ==
    \/ SessionStart(s)
    \/ SessionAnalyze(s)
    \/ SessionRoute(s)
    \/ SessionRouteReview(s)
    \/ SessionSynthesize(s)
    \/ SessionReturn(s)

NextConcurrent == \E s \in SessionIds : SessionStep(s)

SpecConcurrent == Init /\ [][NextConcurrent]_vars

(***************************************************************************)
(* Specification SpecBlocking: the same calls of process with backend      *)
(* calls that may not return. The calls of a specialist to the language    *)
(* model (llm.invoke), to Neo4j (session.run) and to the FAISS index are   *)
(* synchronous and take no timeout; process itself takes the query only.   *)
(* A call in progress either returns (a value or an exception: the steps   *)
(* SessionRoute and SessionRouteReview) or stays in progress. Each call of *)
(* process is a thread of its own: the steps the code takes by itself are  *)
(* taken whenever they can be (weak fairness per call); when a backend     *)
(* answers is not in the hands of the scheduler.                           *)
(***************************************************************************)

\* the specialist entered a backend call that does not return; no step of
\* the code ends the wait
SessionHangs(s) ==
    /\ \/ sessions[s].pc = "route"
       \/ sessions[s].pc = "route_review" /\ sessions[s].intent.needs_reviews
    /\ sessions' = [sessions EXCEPT ![s].pc = "blocked"]
    /\ UNCHANGED <<store, orch_vars, agent_vars, tool_ids, tool_result, direct_call,
                   storage, memory>>

\* the steps of process that wait for no backend
SessionOwnStep(s) ==
    \/ SessionStart(s)
    \/ SessionAnalyze(s)
    \/ SessionSynthesize(s)
    \/ SessionReturn(s)

NextBlocking == NextConcurrent \/ \E s \in SessionIds : SessionHangs(s)

SpecBlocking ==
    Init /\ [][NextBlocking]_vars /\ \A s \in SessionIds : WF_vars(SessionOwnStep(s))

(***************************************************************************)
(* Specification SpecStorage: the Storage selector over the primary store  *)
(* (MemoryTools) and the fallback store (FirebaseTools). Every operation   *)
(* tries the primary and, when the primary raises, does the same on the    *)
(* fallback. storage.saved is history: the messages saved to a             *)
(* conversation since it was last deleted; storage.clock is the time of    *)
(* the last save.                                                          *)
(***************************************************************************)

\* the saves of a behaviour
MaxSaves == 3

Messages ==
    { [role |-> "user", content |-> "Hello Firebase!"],
      [role |-> "assistant", content |-> "Hello"] }

\* whether the call of the primary store raises
PrimaryOutcomes == {"ok", "raises"}

\* the message as a store keeps it
StoredMessage(message, now) ==
    [role |-> message.role, content |-> message.content, timestamp |-> now]

\* Storage.save_message
SaveMessage ==
    /\ storage.clock < MaxSaves
    /\ \E c \in ConversationIds, message \in Messages, primary \in PrimaryOutcomes :
        LET now == storage.clock + 1
            stored == StoredMessage(message, now)
        IN storage' =
             [storage EXCEPT
                 !.primary[c] = IF primary = "ok" THEN Append(@, stored) ELSE @,
                 !.fallback[c] = IF primary = "ok" THEN @ ELSE Append(@, stored),
                 !.saved[c] = Append(@, stored),
                 !.clock = now,
                 !.returned = None]
    /\ UNCHANGED <<store, orch_vars, agent_vars, tool_ids, tool_result, direct_call,
                   sessions, memory>>

\* Storage.get_messages_for_conversation
GetMessages ==
    /\ \E c \in ConversationIds, primary \in PrimaryOutcomes :
        storage' =
            [storage EXCEPT
                !.returned = [conversation_id |-> c,
                              messages |-> IF primary = "ok" THEN storage.primary[c]
                                           ELSE storage.fallback[c]]]
    /\ UNCHANGED <<store, orch_vars, agent_vars, tool_ids, tool_result, direct_call,
                   sessions, memory>>

\* Storage.delete_conversation
DeleteConversation ==
    /\ \E c \in ConversationIds, primary \in PrimaryOutcomes :
        storage' =
            [storage EXCEPT
                !.primary[c] = IF primary = "ok" THEN <<>> ELSE @,
                !.fallback[c] = IF primary = "ok" THEN @ ELSE <<>>,
                !.saved[c] = <<>>,
                !.returned = None]
    /\ UNCHANGED <<store, orch_vars, agent_vars, tool_ids, tool_result, direct_call,
                   sessions, memory>>

NextStorage == SaveMessage \/ GetMessages \/ DeleteConversation

SpecStorage == Init /\ [][NextStorage]_vars

(***************************************************************************)
(* Specification SpecMemory: calls of MemoryTools.create_new_conversation  *)
(* by the user sessions on the one MemoryTools of get_memory_tools.        *)
(* memory.rows are the ids of the conversations table, memory.sequence the *)
(* last id AUTOINCREMENT gave out. In Turso mode the INSERT and the        *)
(* SELECT max(id) are two statements sent one after the other; in SQLite   *)
(* mode the id is the cursor's lastrowid.                                  *)
(***************************************************************************)

\* the rows inserted in a behaviour
MaxRows == 4

\* "SELECT max(id) FROM conversations"; NULL (0 here) for an empty table
MaxId(rows) == IF rows = {} THEN 0 ELSE CHOOSE id \in rows : \A other \in rows : other <= id

\* Turso mode: "INSERT INTO conversations (title, created_at, updated_at) ..."
MemoryInsert(s) ==
    /\ memory.callers[s].pc \in {"idle", "returned"}
    /\ memory.sequence < MaxRows
    /\ memory' = [memory EXCEPT
                      !.rows = @ \cup {memory.sequence + 1},
                      !.sequence = @ + 1,
                      !.callers[s] = [pc |-> "inserted", inserted |-> memory.sequence + 1,
                                      returned |-> 0]]
    /\ UNCHANGED <<store, orch_vars, agent_vars, tool_ids, tool_result, direct_call,
                   sessions, storage>>

\* Turso mode: "SELECT max(id) FROM conversations"; return result.rows[0][0]
MemorySelectMax(s) ==
    /\ memory.callers[s].pc = "inserted"
    /\ memory' = [memory EXCEPT !.callers[s].pc = "returned",
                                !.callers[s].returned = MaxId(memory.rows)]
    /\ UNCHANGED <<store, orch_vars, agent_vars, tool_ids, tool_result, direct_call,
                   sessions, storage>>

\* SQLite mode: cur.execute("INSERT ..."); commit(); return cur.lastrowid
MemoryInsertLastRowId(s) ==
    /\ memory.callers[s].pc \in {"idle", "returned"}
    /\ memory.sequence < MaxRows
    /\ memory' = [memory EXCEPT
                      !.rows = @ \cup {memory.sequence + 1},
                      !.sequence = @ + 1,
                      !.callers[s] = [pc |-> "returned", inserted |-> memory.sequence + 1,
                                      returned |-> memory.sequence + 1]]
    /\ UNCHANGED <<store, orch_vars, agent_vars, tool_ids, tool_result, direct_call,
                   sessions, storage>>

\* MemoryTools.delete_conversation of a session that is in no other call
MemoryDelete(s) ==
    /\ memory.callers[s].pc \in {"idle", "returned"}
    /\ \E id \in memory.rows :
        memory' = [memory EXCEPT !.rows = @ \ {id}]
    /\ UNCHANGED <<store, orch_vars, agent_vars, tool_ids, tool_result, direct_call,
                   sessions, storage>>

NextMemory ==
    \E s \in SessionIds :
        \/ MemoryInsert(s)
        \/ MemorySelectMax(s)
        \/ MemoryInsertLastRowId(s)
        \/ MemoryDelete(s)

SpecMemory == Init /\ [][NextMemory]_vars

(***************************************************************************)
(* Properties                                                              *)
(***************************************************************************)

\* the query of the call in progress, lower-cased
QueryLower == Lower(user_query)

\* _analyze_intent has returned for the query of the call in progress
Classified == pc \in {"route", "route_review", "synthesize", "done"} /\ intent # None

\* C1: a query that contains a comparison keyword and a price keyword is
\* classified as comparison, and its intent does not ask for filtering.
C1_ComparisonBeforePrice ==
    (Classified /\ AnyIn(comparison_keywords, QueryLower)
                /\ AnyIn(price_keywords, QueryLower)) =>
        /\ intent.type = "comparison"
        /\ intent.needs_comparison
        /\ ~intent.needs_filtering

\* C1 witness: a classified query with a comparison keyword and a price
\* keyword that is about to be routed
C1_Witness ==
    /\ pc = "route"
    /\ intent # None
    /\ AnyIn(comparison_keywords, QueryLower)
    /\ AnyIn(price_keywords, QueryLower)
    /\ intent.type = "comparison"

\* C2: every string query gets exactly one intent type, the first that
\* matches in the order comparison, counting, spec_search (a spec keyword and
\* a spec operator), then price and review keywords: both give
\* complex_search, price alone filtered_search, review alone review_search,
\* and a query matching nothing is general.
C2_FirstMatchWins ==
    (pc \in {"route", "route_review", "synthesize"} \/ (pc = "done" /\ user_query # NoneValue)) =>
        LET comparison == AnyIn(comparison_keywords, QueryLower)
            counting == AnyIn(counting_keywords, QueryLower)
            spec == AnyIn(spec_keywords, QueryLower) /\ AnyIn(spec_operators, QueryLower)
            price == AnyIn(price_keywords, QueryLower)
            review == AnyIn(review_keywords, QueryLower)
            earlier == comparison \/ counting \/ spec
        IN /\ intent # None
           /\ intent.type \in IntentTypes
           /\ comparison => intent.type = "comparison"
           /\ (~comparison /\ counting) => intent.type = "counting"
           /\ (~comparison /\ ~counting /\ spec) => intent.type = "spec_search"
           /\ (~earlier /\ price /\ review) => intent.type = "complex_search"
           /\ (~earlier /\ price /\ ~review) => intent.type = "filtered_search"
           /\ (~earlier /\ ~price /\ review) => intent.type = "review_search"
           /\ (~earlier /\ ~price /\ ~review) => intent.type = "general"

\* C2 witness: a query with a price keyword and a review keyword and no
\* earlier match, classified as complex_search
C2_Witness ==
    /\ pc = "route"
    /\ intent # None
    /\ intent.type = "complex_search"
    /\ AnyIn(price_keywords, QueryLower)
    /\ AnyIn(review_keywords, QueryLower)

\* the specialists _route_query calls for an intent type, in order
RoutingPlan(type) ==
    CASE type = "comparison" -> <<"Compare Agent">>
      [] type \in {"counting", "spec_search", "general"} -> <<"Graph Agent">>
      [] type = "review_search" -> <<"Review Agent">>
      [] type = "filtered_search" -> <<"Filter Agent">>
      [] type = "complex_search" -> <<"Filter Agent", "Review Agent">>

\* a specialist was called and did not return
SpecialistRaised ==
    Len(calls) > 0 /\ calls[Len(calls)][1] = "call"

\* C3: once routing is over and no specialist raised, agents_used is the
\* routing plan of the intent type.
C3_AgentsUsedIsPlan ==
    (pc \in {"synthesize", "done"} /\ intent # None /\ ~SpecialistRaised) =>
        execution_trace.agents_used = RoutingPlan(intent.type)

\* C3 witness: a complex_search that ended without an exception, both
\* specialists listed
C3_Witness ==
    /\ pc = "done"
    /\ ~raised
    /\ intent # None
    /\ intent.type = "complex_search"
    /\ execution_trace.agents_used = <<"Filter Agent", "Review Agent">>

IsPrefix(s, u) == Len(s) <= Len(u) /\ s = SubSeq(u, 1, Len(s))

\* C4: for complex_search the Filter Agent has returned before the Review
\* Agent is called; once it returned, the context holds product_ids exactly
\* when its result is a success, and then the ids of its results in order;
\* the Review Agent is called whether or not the filter succeeded, and with
\* that context.
C4_FilterThenReview ==
    (Classified /\ intent.type = "complex_search") =>
        /\ IsPrefix(calls, << <<"call", "Filter Agent">>, <<"return", "Filter Agent">>,
                              <<"call", "Review Agent">>, <<"return", "Review Agent">> >>)
        /\ Len(calls) >= 2 =>
             /\ agent_results.filter # None
             /\ ("product_ids" \in context.keys) <=> agent_results.filter.success
             /\ agent_results.filter.success =>
                   context.product_ids = IdsOf(agent_results.filter.results)
        /\ (Len(calls) >= 2 /\ pc \in {"synthesize", "done"}) => Len(calls) >= 3
        /\ Len(calls) >= 3 => review_context = context

\* C4 witness: the filter found two products or more, and the Review Agent
\* returned reviews of products named in the context
C4_Witness ==
    /\ pc = "synthesize"
    /\ intent # None
    /\ intent.type = "complex_search"
    /\ agent_results.filter # None
    /\ agent_results.filter.success
    /\ Len(context.product_ids) >= 2
    /\ agent_results.review # None
    /\ agent_results.review.success
    /\ review_context = context

\* the number of error steps of a trace
ErrorSteps(steps) == Cardinality({ i \in 1..Len(steps) : steps[i] = "Error" })

\* C5: every call of process ends with a trace.  When an exception was raised
\* on the way, the trace has success = false, the apology as final answer and
\* exactly one error step, appended to the steps accumulated before it; when
\* none was raised the trace has success = true and no error step.
C5_NeverRaises ==
    [][ (pc # "done" /\ pc' = "done") =>
          IF raised'
          THEN /\ execution_trace'.success = FALSE
               /\ execution_trace'.final_answer = ApologyAnswer
               /\ Len(execution_trace'.steps) > Len(execution_trace.steps)
               /\ IsPrefix(execution_trace.steps, execution_trace'.steps)
               /\ execution_trace'.steps[Len(execution_trace'.steps)] = "Error"
               /\ ErrorSteps(execution_trace'.steps) = 1
               /\ execution_trace'.agents_used = execution_trace.agents_used
          ELSE /\ execution_trace'.success = TRUE
               /\ ErrorSteps(execution_trace'.steps) = 0 ]_vars

\* C5 witness: a specialist raised after another had returned; the trace
\* holds that one's steps and the error step
C5_Witness ==
    /\ pc = "done"
    /\ raised
    /\ execution_trace.agents_used = <<"Filter Agent">>
    /\ Len(calls) = 3
    /\ Len(execution_trace.steps) > 5
    /\ execution_trace.success = FALSE

\* the trace process returns after an exception
FailureTrace ==
    /\ execution_trace.success = FALSE
    /\ execution_trace.final_answer = ApologyAnswer
    /\ ErrorSteps(execution_trace.steps) = 1

\* C6 as stated: whenever a backend call threw while the query was served,
\* process returns success = false, one error step and the apology.
C6_EveryBackendFailureSurfaces ==
    (pc = "done" /\ faults # {}) => FailureTrace

\* the specialist whose tool catches a backend failure itself
CatchingSlot(tool) ==
    CASE tool = "extract_product_names_from_query" -> "compare"
      [] tool = "filter_by_spec" -> "graph"
      [] tool = "apply_multiple_filters" -> "filter"

\* C6 amended: a backend failure that no tool catches reaches the handler of
\* process, which returns success = false, one error step and the apology; a
\* failure of the language model in extract_product_names_from_query or of
\* the store query in filter_by_spec or apply_multiple_filters is caught by
\* the tool: the specialist returns a result without success, routing goes
\* on, and unless something else raises process returns success = true
\* with no error step.
C6_UncaughtBackendFailureSurfaces ==
    (pc = "done" /\ faults # {}) =>
        /\ (\E f \in faults : f.caught_in = "Orchestrator.process") =>
              (raised /\ FailureTrace)
        /\ \A f \in faults : f.caught_in # "Orchestrator.process" =>
              /\ agent_results[CatchingSlot(f.caught_in)] # None
              /\ ~agent_results[CatchingSlot(f.caught_in)].success
        /\ (\A f \in faults : f.caught_in # "Orchestrator.process") =>
              /\ ~SpecialistRaised
              /\ ~raised => /\ execution_trace.success = TRUE
                            /\ ErrorSteps(execution_trace.steps) = 0

\* C6 witness: the review index threw under the Review Agent of a
\* complex_search, after the Filter Agent had returned
C6_Witness ==
    /\ pc = "done"
    /\ Fault("ReviewIndex", "Orchestrator.process") \in faults
    /\ execution_trace.agents_used = <<"Filter Agent">>
    /\ FailureTrace

\* a specialist was called and reported success
Succeeded(slot) == agent_results[slot] # None /\ agent_results[slot].success

\* C7: the final answer of a call that raised nothing is the formatted
\* answer of the first successful specialist in the order Compare, Review,
\* Filter, Graph, and the fallback answer exactly when no called specialist
\* succeeded.
C7_SynthesisPriority ==
    (pc = "done" /\ ~raised) =>
        /\ Succeeded("compare") =>
             execution_trace.final_answer = FormattedAnswer("Compare Agent")
        /\ (~Succeeded("compare") /\ Succeeded("review")) =>
             execution_trace.final_answer = FormattedAnswer("Review Agent")
        /\ (~Succeeded("compare") /\ ~Succeeded("review") /\ Succeeded("filter")) =>
             execution_trace.final_answer = FormattedAnswer("Filter Agent")
        /\ (~Succeeded("compare") /\ ~Succeeded("review") /\ ~Succeeded("filter")
              /\ Succeeded("graph")) =>
             execution_trace.final_answer = FormattedAnswer("Graph Agent")
        /\ (execution_trace.final_answer = FallbackAnswer)
             <=> ~\E slot \in {"compare", "review", "filter", "graph"} : Succeeded(slot)

\* C7 witness: Filter and Review both succeeded and the answer is the Review
\* Agent's
C7_Witness ==
    /\ pc = "done"
    /\ ~raised
    /\ Succeeded("filter")
    /\ Succeeded("review")
    /\ execution_trace.final_answer = FormattedAnswer("Review Agent")

\* the entries of a comparison whose id is pid
EntriesOf(products, pid) == { i \in 1..Len(products) : products[i].id = pid }

\* the compared products that have reviews
Reviewed(products) == { i \in 1..Len(products) : products[i].review_count > 0 }

\* compare_products has returned a comparison of at least n products
Compared(n) ==
    /\ tool_result # None
    /\ ~tool_result.raises
    /\ Len(tool_result.value.products) >= n

\* CompareAgent.process has been called and its product ids were resolved
AgentResolved == cmp_result # None /\ cmp_result.resolved

\* the ids of the compared products, in comparison order
ComparedIds(comparison) == [i \in 1..Len(comparison.products) |-> comparison.products[i].id]

\* C8: CompareAgent.process calls compare_products and recommend_best only
\* with at least 2 resolved ids, and then with the first 5 of them in their
\* order; with fewer than 2 resolved ids it returns success = false with
\* neither comparison nor recommendation and calls neither tool; a
\* successful result compares the catalog's products among those first 5,
\* in that order.
C8_CompareTwoToFive ==
    AgentResolved =>
        LET r == cmp_result
            ids == r.resolved_ids
        IN /\ \A k \in 1..Len(r.tool_calls) :
                /\ Len(ids) >= 2
                /\ Len(r.tool_calls[k].product_ids) \in 2..5
                /\ r.tool_calls[k].product_ids = Take(ids, 5)
           /\ Len(ids) < 2 =>
                /\ ~r.raises
                /\ r.value.success = FALSE
                /\ r.tool_calls = <<>>
                /\ "comparison" \notin DOMAIN r.value
                /\ "recommendation" \notin DOMAIN r.value
           /\ (~r.raises /\ r.value.success) =>
                /\ Len(ids) >= 2
                /\ ComparedIds(r.value.comparison)
                     = SelectSeq(Take(ids, 5), LAMBDA p : p \in ProductIds)

\* C8 witness: six ids were resolved, and the comparison that succeeded holds
\* five products
C8_Witness ==
    /\ AgentResolved
    /\ Len(cmp_result.resolved_ids) = 6
    /\ ~cmp_result.raises
    /\ cmp_result.value.success
    /\ Len(cmp_result.value.comparison.products) = 5

\* C9: in a comparison of at least 2 products, every product named by
\* price_winner has the minimum price of the compared products, and, when
\* some compared product has reviews, every product named by rating_winner
\* has the maximum average rating among the compared products with reviews.
C9_WinnersAreExtremes ==
    Compared(2) =>
        LET c == tool_result.value
            products == c.products
        IN /\ EntriesOf(products, c.price_winner) # {}
           /\ \A i \in EntriesOf(products, c.price_winner) :
                \A j \in 1..Len(products) : products[i].price <= products[j].price
           /\ Reviewed(products) # {} =>
                /\ EntriesOf(products, c.rating_winner) # {}
                /\ \A i \in EntriesOf(products, c.rating_winner) :
                     \A j \in Reviewed(products) :
                        ~FracLess(products[i].average_rating, products[j].average_rating)

\* C9 witness: three products, neither winner is the first one, the winners
\* differ, and one compared product has no review
C9_Witness ==
    /\ Compared(3)
    /\ tool_result.value.price_winner # tool_result.value.products[1].id
    /\ tool_result.value.rating_winner # tool_result.value.products[1].id
    /\ tool_result.value.price_winner # tool_result.value.rating_winner
    /\ Reviewed(tool_result.value.products) # {}
    /\ Reviewed(tool_result.value.products) # 1..Len(tool_result.value.products)

\* C10: in every comparison of at least 2 products, the rating winner has at least one review, the
\* price winner is the first product with the minimum price, and the rating
\* winner is the first product with the maximum average rating.
C10_ZeroReviewNeverWins ==
    Compared(2) =>
        LET c == tool_result.value
            products == c.products
            n == Len(products)
            cheapest == { i \in 1..n : \A j \in 1..n : products[i].price <= products[j].price }
            best == { i \in 1..n : \A j \in 1..n :
                        ~FracLess(products[i].average_rating, products[j].average_rating) }
            first(S) == CHOOSE i \in S : \A j \in S : i <= j
        IN /\ \A i \in EntriesOf(products, c.rating_winner) : products[i].review_count > 0
           /\ c.price_winner = products[first(cheapest)].id
           /\ c.rating_winner = products[first(best)].id

\* recommend_best has returned a recommendation of a product
Recommended ==
    /\ direct_call # None
    /\ direct_call.op = "recommend_best"
    /\ ~direct_call.result.raises
    /\ direct_call.result.value.recommended_id # "None"

\* the score the specification gives product i: price_score is
\* 1 - (price - min)/(max - min), or 0.5 when all prices are equal;
\* rating_score is rating/max_rating, or 0 when no product has a rating
SpecifiedPriceScore(products, i) ==
    IF MaxPrice(products) = MinPrice(products) THEN Frac(1, 2)
    ELSE Frac(MaxPrice(products) - products[i].price,
              MaxPrice(products) - MinPrice(products))

SpecifiedRatingScore(products, i) ==
    IF TopRating(products).num = 0 THEN Frac(0, 1)
    ELSE Frac(products[i].average_rating.num * TopRating(products).den,
              products[i].average_rating.den * TopRating(products).num)

SpecifiedScore(price_score, rating_score, criteria) ==
    Frac(price_score.num * criteria.price * rating_score.den
           + rating_score.num * criteria.rating * price_score.den,
         price_score.den * rating_score.den * 10)

SpecifiedScores(products, criteria) ==
    [i \in 1..Len(products) |->
        SpecifiedScore(SpecifiedPriceScore(products, i),
                       SpecifiedRatingScore(products, i), criteria)]

\* C11: every recommendation names a compared product whose score, computed
\* as price_score * w_price + rating_score * w_rating with price_score 0.5
\* when all prices are equal and rating_score 0 when no product has a
\* rating, is the maximum of the scores, and returns that score.
C11_ScoresAsSpecified ==
    Recommended =>
        \E i \in 1..Len(tool_result.value.products) :
            /\ tool_result.value.products[i].id = direct_call.result.value.recommended_id
            /\ FracEq(direct_call.result.value.score,
                      SpecifiedScores(tool_result.value.products, direct_call.criteria)[i])
            /\ \A j \in 1..Len(tool_result.value.products) :
                  ~FracLess(SpecifiedScores(tool_result.value.products, direct_call.criteria)[i],
                            SpecifiedScores(tool_result.value.products, direct_call.criteria)[j])

\* CompareAgent.process has returned a comparison with a recommendation
AgentRecommended ==
    /\ cmp_result # None
    /\ ~cmp_result.raises
    /\ cmp_result.value.success

\* C12: the weights of a recommendation are {0.7, 0.3} when the query
\* contains budget vocabulary, {0.3, 0.7} when it contains quality
\* vocabulary (and no budget vocabulary, which is tested first), and
\* {0.5, 0.5} when it contains neither; they sum to 1.
C12_WeightsFromVocabulary ==
    AgentRecommended =>
        /\ AnyIn(budget_words, Lower(cmp_query)) =>
              cmp_result.value.criteria = [price |-> 7, rating |-> 3]
        /\ (AnyIn(quality_words, Lower(cmp_query))
              /\ ~AnyIn(budget_words, Lower(cmp_query))) =>
              cmp_result.value.criteria = [price |-> 3, rating |-> 7]
        /\ (~AnyIn(quality_words, Lower(cmp_query))
              /\ ~AnyIn(budget_words, Lower(cmp_query))) =>
              cmp_result.value.criteria = [price |-> 5, rating |-> 5]
        /\ cmp_result.value.criteria.price + cmp_result.value.criteria.rating = 10

\* C12 witness: a query with budget and quality vocabulary was recommended
\* on with the budget weights
C12_Witness ==
    /\ AgentRecommended
    /\ AnyIn(budget_words, Lower(cmp_query))
    /\ AnyIn(quality_words, Lower(cmp_query))
    /\ cmp_result.value.criteria = [price |-> 7, rating |-> 3]

\* C13: multiplying both weights by the same positive factor leaves the
\* score of the recommendation and the recommended product unchanged.
C13_ScoreInvariantToScale ==
    Recommended =>
        /\ ~direct_call.rescaled.raises
        /\ direct_call.rescaled.value.recommended_id = direct_call.result.value.recommended_id
        /\ FracEq(direct_call.rescaled.value.score, direct_call.result.value.score)

\* FilterAgent.process was called on its own and returned
Filtered ==
    /\ direct_call # None
    /\ direct_call.op = "FilterAgent.process"
    /\ ~direct_call.result.raises

RulePhrases(rule) ==
    SelectSeq(direct_call.phrases, LAMBDA phrase : phrase.rule = rule)

\* the bounds the documented rules give for the phrases of the query
SpecifiedBounds ==
    IF Len(RulePhrases("around")) > 0
    THEN [min_price |-> Frac(RulePhrases("around")[1].a * 8, 10),
          max_price |-> Frac(RulePhrases("around")[1].a * 12, 10)]
    ELSE IF Len(RulePhrases("between")) > 0
    THEN [min_price |-> Frac(RulePhrases("between")[1].a, 1),
          max_price |-> Frac(RulePhrases("between")[1].b, 1)]
    ELSE [min_price |-> IF Len(RulePhrases("above")) > 0
                        THEN Frac(RulePhrases("above")[1].a, 1) ELSE Frac(0, 1),
          max_price |-> IF Len(RulePhrases("under")) > 0
                        THEN Frac(RulePhrases("under")[1].a, 1) ELSE Frac(Infinity, 1)]

\* C15: the constraints start at min 0 and max infinity; an under phrase
\* alone sets only the max, an above phrase alone only the min; a between
\* phrase sets both and overrides under and above; an around phrase gives
\* 0.8 N and 1.2 N; comma-grouped digits are read as one number.
C15_PriceBoundsFromPhrases ==
    Filtered =>
        /\ FracEq(direct_call.result.value.constraints.min_price, SpecifiedBounds.min_price)
        /\ FracEq(direct_call.result.value.constraints.max_price, SpecifiedBounds.max_price)

\* C15 witness: a query with an under phrase and a between phrase with a
\* comma-grouped amount got the bounds of the between phrase
C15_Witness ==
    /\ Filtered
    /\ Len(RulePhrases("under")) > 0
    /\ Len(RulePhrases("between")) > 0
    /\ RulePhrases("between")[1].b = 1000
    /\ RulePhrases("under")[1].a = 150
    /\ FracEq(direct_call.result.value.constraints.min_price, Frac(150, 1))
    /\ FracEq(direct_call.result.value.constraints.max_price, Frac(1000, 1))

\* C16: a result list of FilterAgent.process has at most 20 products, in
\* non-decreasing price order, each within [min_price, max_price] and of
\* the extracted brand and category when these are set.
C16_FilterResultsBounded ==
    Filtered =>
        /\ Len(direct_call.result.value.results) <= 20
        /\ \A i \in 1..Len(direct_call.result.value.results) :
            /\ i > 1 => direct_call.result.value.results[i - 1].price
                            <= direct_call.result.value.results[i].price
            /\ ~FracLess(Frac(direct_call.result.value.results[i].price, 1),
                         direct_call.result.value.constraints.min_price)
            /\ ~FracLess(direct_call.result.value.constraints.max_price,
                         Frac(direct_call.result.value.results[i].price, 1))
            /\ direct_call.result.value.constraints.brand # NoBrand =>
                   direct_call.result.value.results[i].brand
                       = direct_call.result.value.constraints.brand
            /\ direct_call.result.value.constraints.category # NoCategory =>
                   direct_call.result.value.results[i].category
                       = direct_call.result.value.constraints.category

\* C16 witness: a store with more than 20 matching products gave a list of
\* 20, the cheapest first, under a category and a price bound that all of
\* them meet
C16_Witness ==
    /\ Filtered
    /\ Len(ScanOf(store)) > 20
    /\ Len(direct_call.result.value.results) = 20
    /\ direct_call.result.value.constraints.category # NoCategory
    /\ FracEq(direct_call.result.value.constraints.max_price, Frac(1000, 1))
    /\ direct_call.result.value.results[1].price
           < direct_call.result.value.results[20].price

\* C17: with the catalog up, FilterAgent.process does not raise; it returns
\* the attempted constraints, and success is true exactly when the result
\* list is not empty.
C17_NoMatchIsFailureNotException ==
    (/\ direct_call # None
     /\ direct_call.op = "FilterAgent.process"
     /\ direct_call.fault_brands = "none"
     /\ direct_call.fault_filter = "none") =>
        /\ ~direct_call.result.raises
        /\ direct_call.result.value.success
               <=> Len(direct_call.result.value.results) > 0
        /\ FracEq(direct_call.result.value.constraints.min_price, SpecifiedBounds.min_price)
        /\ FracEq(direct_call.result.value.constraints.max_price, SpecifiedBounds.max_price)
        /\ direct_call.result.value.constraints.brand \in {NoBrand, brand_Apple, brand_Samsung}
        /\ direct_call.result.value.constraints.category \in {NoCategory, "Smartphones", "Cameras"}

\* C17 witness: no product costs more than 1,000; the call returned
\* success false, an empty list and the bounds it tried
C17_Witness ==
    /\ Filtered
    /\ direct_call.fault_brands = "none"
    /\ direct_call.fault_filter = "none"
    /\ Len(direct_call.result.value.results) = 0
    /\ ~direct_call.result.value.success
    /\ FracEq(direct_call.result.value.constraints.min_price, Frac(1000, 1))
    /\ FracEq(direct_call.result.value.constraints.max_price, Frac(Infinity, 1))

GraphAnswered ==
    /\ direct_call # None
    /\ direct_call.op = "GraphAgent.process"
    /\ ~direct_call.result.raises

\* the tests the phrases of the query pass
GraphTags == UNION { direct_call.phrases[i].tags : i \in 1..Len(direct_call.phrases) }

\* the step each sub-behaviour writes into the thinking, in priority order
GraphBehaviours ==
    << "Found product details with specifications",
       "Detected counting query",
       "Detected specification filtering query",
       "Searching products by brand",
       "Searching products by category",
       "Retrieving all available brands",
       "Retrieving all product categories",
       "Performing general product search" >>

GraphBehavioursTaken ==
    { i \in 1..Len(GraphBehaviours) :
        \E k \in 1..Len(direct_call.result.value.thinking) :
            direct_call.result.value.thinking[k] = GraphBehaviours[i] }

\* a product whose name contains the extracted name exists
DetailsFound ==
    /\ direct_call.product_name # NoName
    /\ \E p \in ProductIds :
        Contains(Lower(ProductName(p)), Lower(direct_call.product_name))

GraphBehaviourApplies(i) ==
    CASE i = 1 -> "specification" \in GraphTags /\ DetailsFound
      [] i = 2 -> "counting" \in GraphTags
      [] i = 3 -> "spec_keyword" \in GraphTags /\ "spec_operator" \in GraphTags
      [] i = 4 -> "brand" \in GraphTags
      [] i = 5 -> "category" \in GraphTags
      [] i = 6 -> "all brands" \in GraphTags
      [] i = 7 -> "all categories" \in GraphTags
      [] OTHER -> TRUE

\* C18: GraphAgent.process answers with exactly one sub-behaviour, the
\* first that applies in the order specification detail, counting,
\* specification filter, brand, category, all brands, all categories,
\* name search; a specification request whose extraction or lookup fails
\* goes on to the remaining cases in that order.
C18_OneBehaviourByPriority ==
    GraphAnswered =>
        GraphBehavioursTaken
            = { Min({ i \in 1..Len(GraphBehaviours) : GraphBehaviourApplies(i) }) }

\* C18 witness: a specification request for a name no product has, in a
\* query that also names a brand, was answered by brand
C18_Witness ==
    /\ GraphAnswered
    /\ "specification" \in GraphTags
    /\ direct_call.product_name # NoName
    /\ ~DetailsFound
    /\ "brand" \in GraphTags
    /\ GraphBehavioursTaken = {4}

\* the category the phrases of the query name
GraphCategory == IF "category" \in GraphTags THEN "Smartphones" ELSE NoCategory

\* the brands with a product in the category, all brands when there is none
BrandsCounted ==
    { ProductBrand(p) : p \in { q \in DOMAIN store.price :
                                  GraphCategory # NoCategory
                                      => ProductCategory(q) = GraphCategory } }

ProductsCounted ==
    { p \in DOMAIN store.price :
        GraphCategory # NoCategory => ProductCategory(p) = GraphCategory }

NamesAscending(names) ==
    \A i \in 1..Len(names), j \in 1..Len(names) : i < j => ~StrLess(names[j], names[i])

\* C19: a counting query that mentions "brand", "categor" or a product noun
\* gets a successful count result whose count is the number of matching
\* entities: brand and category counts with the names sorted ascending and
\* count = length (brands of the mapped category when there is one),
\* product counts with at most 10 sample products, of the mapped category
\* when there is one.
C19_CountingQueryCounts ==
    (/\ GraphAnswered
     /\ GraphBehavioursTaken = {2}
     /\ GraphTags \cap {"brand word", "categor word", "product word", "category"} # {}) =>
        /\ direct_call.result.value.success
        /\ direct_call.result.value.result_type = "count"
        /\ direct_call.result.value.results.kind = "dict"
        /\ IF "brand word" \in GraphTags
           THEN /\ direct_call.result.value.results.type = "brand_count"
                /\ direct_call.result.value.results.count = Cardinality(BrandsCounted)
                /\ direct_call.result.value.results.count
                       = Len(direct_call.result.value.results.items)
                /\ NamesAscending(direct_call.result.value.results.items)
           ELSE IF "categor word" \in GraphTags
           THEN /\ direct_call.result.value.results.type = "category_count"
                /\ direct_call.result.value.results.count
                       = Cardinality({ ProductCategory(p) : p \in DOMAIN store.price })
                /\ direct_call.result.value.results.count
                       = Len(direct_call.result.value.results.items)
                /\ NamesAscending(direct_call.result.value.results.items)
           ELSE /\ direct_call.result.value.results.type = "product_count"
                /\ direct_call.result.value.results.count = Cardinality(ProductsCounted)
                /\ Len(direct_call.result.value.results.items) <= 10

ReviewAnswered ==
    /\ direct_call # None
    /\ direct_call.op = "ReviewAgent.process"
    /\ ~direct_call.result.raises

\* the product ids available to the call: those of the context, or those of
\* the products whose name holds the name the query gave
ReviewAvailable ==
    IF Len(ContextProductIds(direct_call.context)) > 0
    THEN ContextProductIds(direct_call.context)
    ELSE IF direct_call.asked.names /\ direct_call.product_name # NoName
    THEN SelectSeq(ScanOrder,
                   LAMBDA p : Contains(Lower(ProductName(p)), Lower(direct_call.product_name)))
    ELSE <<>>

HasReviews(p) == p \in ProductIds /\ Len(store.reviews[p]) > 0

ReportedIds ==
    [i \in 1..Len(direct_call.result.value.results) |->
        direct_call.result.value.results[i].product.id]

\* C20: with product ids available the Review Agent reports on at most 3
\* products, those of the first 3 ids that have reviews, in order, with at
\* most 2 reviews each and without a semantic search; when none of the
\* first 3 has a review it returns success false.
C20_ReviewsOfFirstThree ==
    (ReviewAnswered /\ Len(ReviewAvailable) > 0) =>
        /\ Len(direct_call.result.value.results) <= 3
        /\ ReportedIds = SelectSeq(Take(ReviewAvailable, 3), HasReviews)
        /\ \A i \in 1..Len(direct_call.result.value.results) :
            /\ Len(direct_call.result.value.results[i].relevant_reviews) <= 2
            /\ direct_call.result.value.results[i].relevant_reviews
                   = Take(store.reviews[ReportedIds[i]], 2)
        /\ \A k \in 1..Len(direct_call.result.value.thinking) :
               direct_call.result.value.thinking[k]
                   \notin {"Searching reviews semantically",
                           "Searching for top-rated products",
                           "Performing semantic review search"}
        /\ direct_call.result.value.success
               <=> \E i \in 1..Len(Take(ReviewAvailable, 3)) : HasReviews(ReviewAvailable[i])

\* C20 witness: a context of four ids, the first without reviews, the
\* second with three reviews, the fourth with reviews: two products were
\* reported, the first with two reviews
C20_Witness ==
    /\ ReviewAnswered
    /\ Len(ContextProductIds(direct_call.context)) = 4
    /\ ~HasReviews(direct_call.context.product_ids[1])
    /\ HasReviews(direct_call.context.product_ids[2])
    /\ Len(store.reviews[direct_call.context.product_ids[2]]) = 3
    /\ HasReviews(direct_call.context.product_ids[3])
    /\ HasReviews(direct_call.context.product_ids[4])
    /\ Len(direct_call.result.value.results) = 2
    /\ Len(direct_call.result.value.results[1].relevant_reviews) = 2

\* the call took CASE 2 or CASE 4, the searches of the review index
SemanticSearched ==
    /\ ReviewAnswered
    /\ \E k \in 1..Len(direct_call.result.value.thinking) :
        direct_call.result.value.thinking[k]
            \in {"Searching reviews semantically", "Performing semantic review search"}

\* the distinct elements of a list, each at its first place
RECURSIVE FirstSeen(_)
FirstSeen(ids) ==
    IF Len(ids) = 0 THEN <<>>
    ELSE IF ids[Len(ids)] \in Range(SubSeq(ids, 1, Len(ids) - 1))
    THEN FirstSeen(SubSeq(ids, 1, Len(ids) - 1))
    ELSE Append(FirstSeen(SubSeq(ids, 1, Len(ids) - 1)), ids[Len(ids)])

SearchedIds ==
    [i \in 1..Len(direct_call.result.value.results) |->
        direct_call.result.value.results[i].sentiment.product_id]

\* C21: in the semantic-search cases the products reported are the
\* distinct product ids of the hits in first-seen order, the first 5 of
\* them, each once.
C21_HitsInFirstSeenOrder ==
    SemanticSearched =>
        /\ SearchedIds = Take(FirstSeen(direct_call.review_results), 5)
        /\ \A i \in 1..Len(SearchedIds), j \in 1..Len(SearchedIds) :
               i # j => SearchedIds[i] # SearchedIds[j]

(***************************************************************************)
(* Concurrent queries through the one Orchestrator (SpecConcurrent).       *)
(***************************************************************************)

SlotOf(name) ==
    CASE name = "Compare Agent" -> "compare"
      [] name = "Graph Agent" -> "graph"
      [] name = "Review Agent" -> "review"
      [] name = "Filter Agent" -> "filter"

RoutingStep(name, type) ==
    CASE name = "Compare Agent" -> "Orchestrator: Routing to Compare Agent..."
      [] name = "Graph Agent" -> GraphStep(type)
      [] name = "Review Agent" -> "Orchestrator: Routing to Review Agent..."
      [] name = "Filter Agent" -> "Orchestrator: Routing to Filter Agent..."

\* the steps of the first n specialists of a query's own pipeline
RECURSIVE PipelineSteps(_, _)
PipelineSteps(se, n) ==
    IF n = 0 THEN <<>>
    ELSE LET name == RoutingPlan(se.intent.type)[n]
         IN PipelineSteps(se, n - 1)
                \o <<RoutingStep(name, se.intent.type)>>
                \o se.agent_results[SlotOf(name)].thinking

\* what a query's own filter result seeds
OwnSeed(se) ==
    IF se.agent_results.filter # None THEN SeedContext(EmptyContext, se.agent_results.filter)
    ELSE EmptyContext

SessionSucceeded(se) == se.pc = "done" /\ se.execution_trace.success

\* C22: when queries run at the same time through the shared Orchestrator,
\* each call has its own Context and Trace: a specialist is handed the empty
\* context, or in a complex search the product ids seeded by the same
\* query's filter result, never those another query seeded; and the steps
\* and agents_used a call returns are those of its own query's pipeline,
\* in the order of that pipeline.
C22_SessionsPrivate ==
    \A s \in SessionIds :
        LET se == sessions[s]
        IN /\ \A i \in 1..Len(se.handed) :
                  se.handed[i].context =
                      IF se.intent.type = "complex_search"
                         /\ se.handed[i].agent = "Review Agent"
                      THEN OwnSeed(se) ELSE EmptyContext
           /\ SessionSucceeded(se) =>
                  /\ se.execution_trace.agents_used = RoutingPlan(se.intent.type)
                  /\ se.execution_trace.steps =
                         <<"Orchestrator: Analyzing query intent...",
                           IntentStep(se.intent.type)>>
                         \o PipelineSteps(se, Len(RoutingPlan(se.intent.type)))
                         \o <<"Orchestrator: Synthesizing final answer...">>

\* one query's specialist was handed the empty context while the other
\* query's context held seeded product ids, and both queries succeeded
C22_Witness ==
    /\ SessionSucceeded(sessions[1])
    /\ SessionSucceeded(sessions[2])
    /\ sessions[1].intent.type = "comparison"
    /\ sessions[1].handed[1].while_seeded
    /\ sessions[1].handed[1].context = EmptyContext
    /\ Len(sessions[2].context.product_ids) > 0
    /\ sessions[2].execution_trace.agents_used = <<"Filter Agent", "Review Agent">>
    /\ sessions[2].handed[2].context = sessions[2].context

(***************************************************************************)
(* Termination of process (SpecBlocking).                                  *)
(***************************************************************************)

\* C23: a backend call that runs long cannot block the Orchestrator for
\* ever: the specialist gives up after the caller's timeout and reports a
\* failure, so a call of process whose backend call does not return
\* eventually returns its trace all the same.
C23_ProcessReturns ==
    \A s \in SessionIds : (sessions[s].pc = "blocked") ~> (sessions[s].pc = "done")

(***************************************************************************)
(* The flags of the intent (Spec).                                         *)
(***************************************************************************)

\* the tags _analyze_intent returns early with
EarlyTags == {"comparison", "counting", "spec_search"}

\* C24 (as the code has it): needs_comparison is true exactly when a
\* comparison keyword occurs. needs_filtering and needs_reviews follow
\* their keyword classes (price; review or quality) only when the query is
\* tagged neither comparison nor counting nor spec_search; under these
\* three tags both are false, whatever keywords occur.
C24_FlagsOfTheCascade ==
    Classified =>
        /\ intent.needs_comparison <=> AnyIn(comparison_keywords, QueryLower)
        /\ IF intent.type \in EarlyTags
           THEN ~intent.needs_filtering /\ ~intent.needs_reviews
           ELSE /\ intent.needs_filtering <=> AnyIn(price_keywords, QueryLower)
                /\ intent.needs_reviews <=> AnyIn(review_keywords, QueryLower)

\* a counting query with a price keyword and a review keyword, and a
\* filtered search was not asked for
C24_Witness ==
    /\ Classified
    /\ intent.type = "counting"
    /\ AnyIn(price_keywords, QueryLower)
    /\ ~intent.needs_filtering
    /\ pc = "done"

\* C24: the flags needs_filtering, needs_reviews and needs_comparison do
\* not depend on the primary tag: whatever the type of the intent, each is
\* true exactly when a keyword of its class (price, review or quality,
\* comparison) occurs in the query.
C24_FlagsIndependentOfTag ==
    Classified =>
        /\ intent.needs_filtering <=> AnyIn(price_keywords, QueryLower)
        /\ intent.needs_reviews <=> AnyIn(review_keywords, QueryLower)
        /\ intent.needs_comparison <=> AnyIn(comparison_keywords, QueryLower)

(***************************************************************************)
(* apply_multiple_filters and a failing store (SpecMultiFilter).           *)
(***************************************************************************)

MultiFiltered == direct_call # None /\ direct_call.agent = "apply_multiple_filters"

\* what the store would answer to the filters without the spec filters
WithoutSpecs(call) ==
    MultiFilterQuery(call.store, call.brand, call.category, call.min_price,
                     call.max_price, NoSpecFilters, call.limit)

\* C25: a failed store query never makes apply_multiple_filters raise.
\* When spec filters were supplied it runs the query exactly once more
\* without them, with the same brand, category, price bounds and limit, and
\* returns what the retry gives (the empty list when the retry fails too);
\* without spec filters it returns the empty list. It runs at most two
\* store queries.
C25_RetryOnceWithoutSpecs ==
    MultiFiltered =>
        LET call == direct_call
        IN /\ ~call.result.raises
           /\ Len(call.queries) <= 2
           /\ call.outcomes[1] = "CatalogStore" /\ HasSpecFilters(call.spec_filters) =>
                  /\ Len(call.queries) = 2
                  /\ call.queries[2] = [call.queries[1] EXCEPT !.spec_filters = NoSpecFilters]
                  /\ call.result.value = IF call.outcomes[2] = "CatalogStore" THEN <<>>
                                         ELSE WithoutSpecs(call)
           /\ call.outcomes[1] = "CatalogStore" /\ ~HasSpecFilters(call.spec_filters) =>
                  /\ Len(call.queries) = 1
                  /\ call.result.value = <<>>

\* the query with spec filters failed and the retry returned a product
\* that does not satisfy them
C25_Witness ==
    /\ MultiFiltered
    /\ direct_call.outcomes[1] = "CatalogStore"
    /\ direct_call.outcomes[2] = "none"
    /\ direct_call.spec_filters = SpecFilterList(<<SpecFilterRam>>)
    /\ Len(direct_call.queries) = 2
    /\ \E i \in 1..Len(direct_call.result.value) :
           direct_call.result.value[i].id \notin SpecFilterRam.satisfying

(***************************************************************************)
(* The success flag of process (Spec).                                     *)
(***************************************************************************)

Slots == {"graph", "review", "filter", "compare"}

\* at least one specialist was called and each one called reported
\* success = false
AllReportedFailure ==
    /\ \E slot \in Slots : agent_results[slot] # None
    /\ \A slot \in Slots : ~Succeeded(slot)

\* C26: the success flag process returns is true exactly when no exception
\* left _analyze_intent, _route_query or _synthesize_answer; in particular
\* it is true, and the final answer is the "couldn't find any products"
\* fallback, when every specialist that was called reported success = false.
C26_SuccessIffNoException ==
    pc = "done" =>
        /\ execution_trace.success <=> ~raised
        /\ (~raised /\ AllReportedFailure) =>
               /\ execution_trace.success
               /\ execution_trace.final_answer = FallbackAnswer

\* both specialists of a complex search reported success = false and the
\* call succeeded with the fallback answer
C26_Witness ==
    /\ pc = "done"
    /\ execution_trace.agents_used = <<"Filter Agent", "Review Agent">>
    /\ AllReportedFailure
    /\ execution_trace.success
    /\ execution_trace.final_answer = FallbackAnswer

(***************************************************************************)
(* The shape of a successful comparison (SpecAgent).                       *)
(***************************************************************************)

\* C27: whenever CompareAgent.process returns success = true,
\* comparison.products has at least 2 and at most 5 entries, the entries
\* are for pairwise distinct products, price_winner and rating_winner are
\* ids of entries, and recommendation.recommended_id is the id of an entry
\* (for every list of names or context ids and every catalog).
C27_ComparisonWellFormed ==
    AgentRecommended =>
        LET c == cmp_result.value.comparison
            ids == ComparedIds(c)
        IN /\ Len(ids) \in 2..5
           /\ \A i \in 1..Len(ids), j \in 1..Len(ids) : i # j => ids[i] # ids[j]
           /\ EntriesOf(c.products, c.price_winner) # {}
           /\ EntriesOf(c.products, c.rating_winner) # {}
           /\ EntriesOf(c.products, cmp_result.value.recommendation.recommended_id) # {}

(***************************************************************************)
(* Who writes the Context (Spec).                                          *)
(***************************************************************************)

\* the Filter Agent of a complex search has returned success = true
FilterSeeded ==
    Classified /\ intent.type = "complex_search" /\ Succeeded("filter")

\* C28: no specialist modifies the Context it is handed. In process the
\* Context starts empty and its only write is product_ids, by the
\* Orchestrator, in a complex search after the Filter Agent succeeded:
\* under every other intent the Context is empty when the specialist is
\* called and stays empty, and the Review Agent of a complex search leaves
\* the Context as it was handed over.
C28_ContextWrittenOnlyBySeeding ==
    /\ context = IF FilterSeeded
                 THEN [keys |-> {"product_ids"},
                       product_ids |-> IdsOf(agent_results.filter.results)]
                 ELSE EmptyContext
    /\ review_context # None => review_context = context

\* the Filter Agent of a filtered search succeeded and the Context is empty
C28_Witness ==
    /\ pc = "done"
    /\ Classified
    /\ intent.type = "filtered_search"
    /\ Succeeded("filter")
    /\ execution_trace.success
    /\ context = EmptyContext

(***************************************************************************)
(* Messages through the Storage selector (SpecStorage).                    *)
(***************************************************************************)

\* get_messages_for_conversation has returned
MessagesReturned == storage.returned # None

\* C29: through the Storage selector, a message saved to a conversation is
\* returned by every later get_messages_for_conversation of that
\* conversation until the conversation is deleted, the saved messages in
\* the order they were saved, whatever calls of the primary store fail.
C29_SavedMessagesReturned ==
    MessagesReturned =>
        LET saved == storage.saved[storage.returned.conversation_id]
            messages == storage.returned.messages
        IN \E at \in [1..Len(saved) -> 1..Len(messages)] :
              /\ \A i \in 1..Len(saved) : messages[at[i]] = saved[i]
              /\ \A i \in 1..Len(saved), j \in 1..Len(saved) : i < j => at[i] < at[j]

(***************************************************************************)
(* The id create_new_conversation returns (SpecMemory).                    *)
(***************************************************************************)

\* the call of create_new_conversation of session s has returned
Created(s) == memory.callers[s].pc = "returned"

\* C30: create_new_conversation returns the id of the row that the same
\* call inserted, and two calls never return the same id, also when the
\* statements of concurrent calls interleave.
C30_ReturnsOwnRow ==
    /\ \A s \in SessionIds :
          Created(s) => memory.callers[s].returned = memory.callers[s].inserted
    /\ \A s \in SessionIds, other \in SessionIds :
          (s # other /\ Created(s) /\ Created(other)) =>
              memory.callers[s].returned # memory.callers[other].returned

=============================================================================
